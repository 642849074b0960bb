------------------------ MODULE TimeAccountingProofs ------------------------
(***************************************************************************)
(* The numbers of a summary are what happens in the units of its window,   *)
(* for any number of runs.                                                 *)
(***************************************************************************)
EXTENDS TimeAccounting, ListProofs

Iv == [start : Int, end : Int]

Within(iv, t) == iv.start <= t /\ t < iv.end

\* Some interval of the list holds t.
Covers(l, t) == \E i \in DOMAIN l : Within(l[i], t)

\* Proper intervals, each after the one before and not touching it.
Apart(l) ==
    /\ \A k \in DOMAIN l : proper(l[k])
    /\ \A j, k \in DOMAIN l : j < k => l[j].end < l[k].start

-----------------------------------------------------------------------------
\* Merging.

LEMMA MergeStepFacts ==
    ASSUME NEW m \in Seq(Iv), NEW iv \in Iv
    PROVE  /\ mergeStep(m, iv) \in Seq(Iv)
           /\ webMergeStep(m, iv) = mergeStep(m, iv)
           /\ m = << >> \/ iv.start > m[Len(m)].end => mergeStep(m, iv) = Append(m, iv)
           /\ m # << >> /\ iv.start <= m[Len(m)].end =>
                 mergeStep(m, iv) =
                     [m EXCEPT ![Len(m)] = [start |-> m[Len(m)].start,
                                            end |-> later(m[Len(m)].end, iv.end)]]
<1>1. m # << >> => Len(m) \in DOMAIN m /\ Last(m) = m[Len(m)] /\ m[Len(m)] \in Iv
  BY DEF Last
<1>2. iv.start \in Int /\ iv.end \in Int
  BY DEF Iv
<1>3. CASE m = << >> \/ iv.start > m[Len(m)].end
  <2>1. mergeStep(m, iv) = Append(m, iv)
    BY <1>1, <1>3 DEF mergeStep
  <2>2. webMergeStep(m, iv) = Append(m, iv)
    BY <1>1, <1>2, <1>3 DEF webMergeStep, Iv
  <2> QED
    BY <1>1, <1>2, <1>3, <2>1, <2>2 DEF Iv
<1>4. CASE m # << >> /\ iv.start <= m[Len(m)].end
  <2>1. m[Len(m)].end \in Int /\ ~(iv.start > m[Len(m)].end)
    BY <1>1, <1>2, <1>4 DEF Iv
  <2>2. /\ mergeStep(m, iv) = [m EXCEPT ![Len(m)].end = later(@, iv.end)]
        /\ webMergeStep(m, iv) = [m EXCEPT ![Len(m)].end = later(@, iv.end)]
    BY <1>1, <1>4, <2>1 DEF mergeStep, webMergeStep
  <2>3. [m[Len(m)] EXCEPT !.end = later(@, iv.end)] =
            [start |-> m[Len(m)].start, end |-> later(m[Len(m)].end, iv.end)]
    BY <1>1, <1>4 DEF Iv
  <2>4. [m EXCEPT ![Len(m)].end = later(@, iv.end)] =
            [m EXCEPT ![Len(m)] = [start |-> m[Len(m)].start,
                                   end |-> later(m[Len(m)].end, iv.end)]]
    BY <1>1, <1>4, <2>3
  <2>5. [start |-> m[Len(m)].start, end |-> later(m[Len(m)].end, iv.end)] \in Iv
    BY <1>1, <1>2, <1>4 DEF Iv, later
  <2> QED
    BY <1>1, <1>4, <2>1, <2>2, <2>4, <2>5
<1> QED
  BY <1>1, <1>2, <1>3, <1>4 DEF Iv

\* The lists after each turn of either merge.
LEMMA MergeTurns ==
    ASSUME NEW n \in Nat, NEW l \in [1..n -> Iv]
    PROVE  \E f \in [0..n -> Seq(Iv)] :
              /\ f[0] = << >> /\ \A k \in 1..n : f[k] = mergeStep(f[k - 1], l[k])
              /\ loop(mergeStep, << >>, l) = f[n]
              /\ loop(webMergeStep, << >>, l) = f[n]
<1>0. Len(l) = n /\ << >> \in Seq(Iv)
  BY IsList
<1>1. PICK g : \A k \in 1..n : \A m \in Seq(Iv) :
                  g[<<k, m>>] = mergeStep(m, l[k]) /\ g[<<k, m>>] \in Seq(Iv)
  <2> DEFINE g == [x \in (1..n) \X Seq(Iv) |-> mergeStep(x[2], l[x[1]])]
  <2>1. ASSUME NEW k \in 1..n, NEW m \in Seq(Iv)
        PROVE  g[<<k, m>>] = mergeStep(m, l[k]) /\ g[<<k, m>>] \in Seq(Iv)
    <3>1. mergeStep(m, l[k]) \in Seq(Iv)
      BY MergeStepFacts
    <3> QED
      BY <3>1
  <2> HIDE DEF g
  <2> QED
    BY <2>1
<1>2. PICK f \in [0..n -> Seq(Iv)] : Values(f, g, n, << >>)
  <2>1. Closed(g, n, Seq(Iv))
    BY <1>1 DEF Closed
  <2> QED
    BY <1>0, <2>1, LoopExists
<1>3. \A k \in 1..n : /\ f[k] = mergeStep(f[k - 1], l[k])
                      /\ f[k] = webMergeStep(f[k - 1], l[k])
  <2>1. \A k \in 1..n : k - 1 \in 0..n /\ f[k - 1] \in Seq(Iv) /\ l[k] \in Iv
    OBVIOUS
  <2>2. \A k \in 1..n : f[k] = mergeStep(f[k - 1], l[k])
    BY <1>1, <1>2, <2>1 DEF Values
  <2> QED
    BY <2>1, <2>2, MergeStepFacts
<1> DEFINE F == CHOOSE h : h = [k \in 0..Len(l) |->
                    IF k = 0 THEN << >> ELSE mergeStep(h[k - 1], l[k])]
           G == CHOOSE h : h = [k \in 0..Len(l) |->
                    IF k = 0 THEN << >> ELSE webMergeStep(h[k - 1], l[k])]
<1>4. loop(mergeStep, << >>, l) = F[Len(l)] /\ loop(webMergeStep, << >>, l) = G[Len(l)]
  BY DEF loop
<1>5. F = [k \in 0..Len(l) |-> IF k = 0 THEN << >> ELSE mergeStep(F[k - 1], l[k])]
  <2>1. \A k \in 0..n : f[k] = IF k = 0 THEN << >> ELSE mergeStep(f[k - 1], l[k])
    BY <1>2, <1>3 DEF Values
  <2>2. f = [k \in 0..Len(l) |-> IF k = 0 THEN << >> ELSE mergeStep(f[k - 1], l[k])]
    BY <1>0, <2>1
  <2> QED
    BY <2>2
<1>6. G = [k \in 0..Len(l) |-> IF k = 0 THEN << >> ELSE webMergeStep(G[k - 1], l[k])]
  <2>1. \A k \in 0..n : f[k] = IF k = 0 THEN << >> ELSE webMergeStep(f[k - 1], l[k])
    BY <1>2, <1>3 DEF Values
  <2>2. f = [k \in 0..Len(l) |-> IF k = 0 THEN << >> ELSE webMergeStep(f[k - 1], l[k])]
    BY <1>0, <2>1
  <2> QED
    BY <2>2
<1> HIDE DEF F, G
<1>7. \A k \in 0..n : F[k] = f[k] /\ G[k] = f[k]
  <2> DEFINE T == {k \in 0..n : F[k] = f[k] /\ G[k] = f[k]}
  <2>1. 0 \in T
    BY <1>0, <1>2, <1>5, <1>6 DEF Values
  <2>2. ASSUME NEW k \in 0..n, k < n, k \in T PROVE k + 1 \in T
    <3>1. k + 1 \in 1..n /\ (k + 1) - 1 = k /\ k + 1 \in 0..n
      BY <2>2
    <3>2. F[k + 1] = mergeStep(F[k], l[k + 1]) /\ G[k + 1] = webMergeStep(G[k], l[k + 1])
      BY <1>0, <1>5, <1>6, <3>1
    <3>3. f[k + 1] = mergeStep(f[k], l[k + 1]) /\ f[k + 1] = webMergeStep(f[k], l[k + 1])
      BY <1>3, <3>1
    <3> QED
      BY <2>2, <3>1, <3>2, <3>3
  <2> HIDE DEF T
  <2>3. \A k \in 0..n : k \in T
    BY <2>1, <2>2, UpTo
  <2> QED
    BY <2>3 DEF T
<1>8. f[0] = << >>
  BY <1>2 DEF Values
<1>9. loop(mergeStep, << >>, l) = f[n] /\ loop(webMergeStep, << >>, l) = f[n]
  BY <1>0, <1>4, <1>7
<1> QED
  BY <1>3, <1>8, <1>9

\* One turn of the merge: the list stays apart and covers what it did and the
\* new interval, if that starts no earlier than the last one.
LEMMA MergeTurn ==
    ASSUME NEW m \in Seq(Iv), Apart(m), NEW iv \in Iv, proper(iv),
           m # << >> => m[Len(m)].start <= iv.start,
           NEW r, r = mergeStep(m, iv)
    PROVE  /\ r \in Seq(Iv) /\ r # << >> /\ Apart(r)
           /\ r[Len(r)].start <= iv.start
           /\ \A t \in Int : Covers(r, t) <=> Covers(m, t) \/ Within(iv, t)
<1>0. /\ r \in Seq(Iv) /\ iv.start \in Int /\ iv.end \in Int /\ iv.end > iv.start
      /\ \A k \in DOMAIN m : m[k].start \in Int /\ m[k].end \in Int /\ m[k].end > m[k].start
      /\ Len(m) \in Nat /\ DOMAIN m = 1..Len(m)
  <2>1. r \in Seq(Iv)
    BY MergeStepFacts
  <2>2. iv.start \in Int /\ iv.end \in Int /\ iv.end > iv.start
    BY DEF Iv, proper
  <2>3. \A k \in DOMAIN m : m[k] \in Iv /\ proper(m[k])
    BY DEF Apart
  <2>4. \A k \in DOMAIN m : m[k].start \in Int /\ m[k].end \in Int /\ m[k].end > m[k].start
    BY <2>3 DEF Iv, proper
  <2> QED
    BY <2>1, <2>2, <2>4
<1>1. CASE m = << >> \/ iv.start > m[Len(m)].end
  <2>1. r = Append(m, iv)
    BY <1>1, MergeStepFacts
  <2>2. Len(r) = Len(m) + 1 /\ r[Len(r)] = iv /\ \A k \in DOMAIN m : r[k] = m[k]
    BY <2>1
  <2>3. DOMAIN r = 1..(Len(m) + 1)
    BY <2>1
  <2>4. \A k \in DOMAIN m : m[k].end < iv.start
    <3> SUFFICES ASSUME NEW k \in DOMAIN m PROVE m[k].end < iv.start
      OBVIOUS
    <3>1. Len(m) \in DOMAIN m /\ iv.start > m[Len(m)].end
      BY <1>0, <1>1
    <3>2. CASE k = Len(m)
      BY <1>0, <3>1, <3>2
    <3>3. CASE k # Len(m)
      <4>1. m[k].end < m[Len(m)].start
        BY <1>0, <3>1, <3>3 DEF Apart
      <4> QED
        BY <1>0, <3>1, <4>1
    <3> QED
      BY <3>2, <3>3
  <2>5. Apart(r)
    <3>1. \A k \in DOMAIN r : proper(r[k])
      BY <1>0, <2>2, <2>3 DEF Apart
    <3>2. ASSUME NEW j \in DOMAIN r, NEW k \in DOMAIN r, j < k PROVE r[j].end < r[k].start
      <4>1. j \in DOMAIN m /\ r[j] = m[j]
        BY <1>0, <2>2, <2>3, <3>2
      <4>2. CASE k \in DOMAIN m
        BY <2>2, <3>2, <4>1, <4>2 DEF Apart
      <4>3. CASE k = Len(m) + 1
        BY <2>2, <2>4, <4>1, <4>3
      <4> QED
        BY <1>0, <2>3, <4>2, <4>3
    <3> QED
      BY <3>1, <3>2 DEF Apart
  <2>6. \A t \in Int : Covers(r, t) <=> Covers(m, t) \/ Within(iv, t)
    <3>1. Len(r) \in DOMAIN r /\ \A k \in DOMAIN r : k \in DOMAIN m \/ k = Len(r)
      BY <1>0, <2>2, <2>3
    <3>2. \A k \in DOMAIN m : k \in DOMAIN r
      BY <1>0, <2>3
    <3> QED
      BY <2>2, <3>1, <3>2 DEF Covers
  <2>7. r # << >> /\ r[Len(r)].start <= iv.start
    BY <1>0, <2>2, <2>3
  <2> QED
    BY <1>0, <2>5, <2>6, <2>7
<1>2. CASE m # << >> /\ iv.start <= m[Len(m)].end
  <2> DEFINE z == Len(m)
             last == [start |-> m[z].start, end |-> later(m[z].end, iv.end)]
  <2>1. r = [m EXCEPT ![z] = last]
    BY <1>2, MergeStepFacts
  <2>2. z \in DOMAIN m /\ m[z].start <= iv.start
    BY <1>0, <1>2
  <2>3. DOMAIN r = DOMAIN m /\ Len(r) = z /\ r[z] = last /\ \A k \in DOMAIN m : k # z => r[k] = m[k]
    BY <1>0, <2>1, <2>2
  <2>4. /\ last.start = m[z].start /\ last.end \in Int
        /\ last.end >= m[z].end /\ last.end >= iv.end
        /\ last.end = m[z].end \/ last.end = iv.end
    BY <1>0, <2>2 DEF later
  <2> HIDE DEF last
  <2>5. Apart(r)
    <3>1. \A k \in DOMAIN r : proper(r[k])
      BY <1>0, <2>2, <2>3, <2>4 DEF proper
    <3>2. ASSUME NEW j \in DOMAIN r, NEW k \in DOMAIN r, j < k PROVE r[j].end < r[k].start
      <4>1. j # z /\ r[j] = m[j] /\ j \in DOMAIN m
        BY <1>0, <2>3, <3>2
      <4>2. m[j].end < m[k].start
        BY <2>3, <3>2, <4>1 DEF Apart
      <4> QED
        BY <2>3, <2>4, <4>1, <4>2
    <3> QED
      BY <3>1, <3>2 DEF Apart
  <2>6. ASSUME NEW t \in Int PROVE Covers(r, t) <=> Covers(m, t) \/ Within(iv, t)
    <3>1. Within(last, t) <=> Within(m[z], t) \/ Within(iv, t)
      BY <1>0, <1>2, <2>2, <2>4 DEF Within
    <3> QED
      BY <2>2, <2>3, <3>1 DEF Covers
  <2>7. r # << >> /\ r[Len(r)].start <= iv.start
    BY <1>0, <2>2, <2>3, <2>4
  <2> QED
    BY <1>0, <2>5, <2>6, <2>7
<1> QED
  BY <1>0, <1>1, <1>2

\* The list after the last turn.
LEMMA MergedList ==
    ASSUME NEW n \in Nat, NEW l \in [1..n -> Iv],
           \A k \in 1..n : proper(l[k]),
           \A j, k \in 1..n : j < k => l[j].start <= l[k].start
    PROVE  \E m \in Seq(Iv) :
              /\ m = loop(mergeStep, << >>, l) /\ m = loop(webMergeStep, << >>, l)
              /\ Apart(m)
              /\ \A t \in Int : Covers(m, t) <=> Covers(l, t)
<1>1. PICK f \in [0..n -> Seq(Iv)] :
              /\ f[0] = << >> /\ \A k \in 1..n : f[k] = mergeStep(f[k - 1], l[k])
              /\ loop(mergeStep, << >>, l) = f[n]
              /\ loop(webMergeStep, << >>, l) = f[n]
  BY MergeTurns
<1> DEFINE Good(k) ==
              /\ Apart(f[k])
              /\ f[k] # << >> => k > 0 /\ f[k][Len(f[k])].start <= l[k].start
              /\ \A t \in Int : Covers(f[k], t) <=> \E i \in 1..k : Within(l[i], t)
           T == {k \in 0..n : Good(k)}
<1>2. 0 \in T
  <2>1. 0 \in 0..n /\ Apart(<< >>) /\ \A t \in Int : ~Covers(<< >>, t)
    BY DEF Apart, Covers
  <2> QED
    BY <1>1, <2>1
<1>3. ASSUME NEW k \in 0..n, k < n, k \in T PROVE k + 1 \in T
  <2>1. k + 1 \in 1..n /\ (k + 1) - 1 = k /\ k + 1 \in 0..n
    BY <1>3
  <2>2. f[k] \in Seq(Iv) /\ l[k + 1] \in Iv /\ proper(l[k + 1])
    BY <2>1
  <2>3. f[k + 1] = mergeStep(f[k], l[k + 1])
    BY <1>1, <2>1
  <2>4. Good(k)
    BY <1>3
  <2>5. ASSUME f[k] # << >> PROVE f[k][Len(f[k])].start <= l[k + 1].start
    <3>1. k \in 1..n /\ l[k].start <= l[k + 1].start /\ f[k][Len(f[k])].start <= l[k].start
      BY <2>1, <2>4, <2>5
    <3>2. l[k] \in Iv /\ l[k + 1] \in Iv
      BY <2>1, <3>1
    <3>3. f[k][Len(f[k])] \in Iv
      BY <2>2, <2>5
    <3>4. l[k].start \in Int /\ l[k + 1].start \in Int /\ f[k][Len(f[k])].start \in Int
      BY <3>2, <3>3 DEF Iv
    <3> QED
      <4> DEFINE a == f[k][Len(f[k])].start
                 b == l[k].start
                 c == l[k + 1].start
      <4>1. a \in Int /\ b \in Int /\ c \in Int /\ a <= b /\ b <= c
        BY <3>1, <3>4
      <4> HIDE DEF a, b, c
      <4>2. a <= c
        BY <4>1
      <4> QED
        BY <4>2 DEF a, c
  <2>6. /\ f[k + 1] \in Seq(Iv) /\ f[k + 1] # << >> /\ Apart(f[k + 1])
        /\ f[k + 1][Len(f[k + 1])].start <= l[k + 1].start
        /\ \A t \in Int : Covers(f[k + 1], t) <=> Covers(f[k], t) \/ Within(l[k + 1], t)
    <3> DEFINE m == f[k]
               iv == l[k + 1]
               r == f[k + 1]
    <3>1. m \in Seq(Iv) /\ Apart(m) /\ iv \in Iv /\ proper(iv) /\ r = mergeStep(m, iv)
      BY <2>2, <2>3, <2>4
    <3>2. m # << >> => m[Len(m)].start <= iv.start
      BY <2>5
    <3> HIDE DEF m, iv, r
    <3>3. /\ r \in Seq(Iv) /\ r # << >> /\ Apart(r)
          /\ r[Len(r)].start <= iv.start
          /\ \A t \in Int : Covers(r, t) <=> Covers(m, t) \/ Within(iv, t)
      BY <3>1, <3>2, MergeTurn
    <3> QED
      BY <3>3 DEF m, iv, r
  <2>7. ASSUME NEW t \in Int
        PROVE  Covers(f[k + 1], t) <=> \E i \in 1..(k + 1) : Within(l[i], t)
    <3>1. Covers(f[k], t) <=> \E i \in 1..k : Within(l[i], t)
      BY <2>4
    <3>2. \A i \in 1..(k + 1) : i \in 1..k \/ i = k + 1
      OBVIOUS
    <3>3. \A i \in 1..k : i \in 1..(k + 1)
      OBVIOUS
    <3> QED
      BY <2>1, <2>6, <3>1, <3>2, <3>3
  <2> QED
    BY <2>1, <2>6, <2>7
<1> HIDE DEF T
<1>4. n \in T
  <2>1. \A k \in 0..n : k \in T
    BY <1>2, <1>3, UpTo
  <2> QED
    BY <2>1
<1>5. Good(n)
  BY <1>4 DEF T
<1>6. f[n] \in Seq(Iv) /\ DOMAIN l = 1..n
  OBVIOUS
<1> QED
  BY <1>1, <1>5, <1>6 DEF Covers

-----------------------------------------------------------------------------
\* Durations.

LEMMA UnitsOf ==
    ASSUME NEW iv \in Iv, iv.start <= iv.end
    PROVE  /\ IsFiniteSet(iv.start..(iv.end - 1))
           /\ Cardinality(iv.start..(iv.end - 1)) = iv.end - iv.start
           /\ iv.end - iv.start \in Nat
           /\ \A t \in Int : t \in iv.start..(iv.end - 1) <=> Within(iv, t)
<1>1. iv.start \in Int /\ iv.end \in Int /\ iv.end - 1 \in Int
  BY DEF Iv
<1>2. /\ IsFiniteSet(iv.start..(iv.end - 1))
      /\ Cardinality(iv.start..(iv.end - 1)) =
             IF iv.start > iv.end - 1 THEN 0 ELSE (iv.end - 1) - iv.start + 1
  BY <1>1, FS_Interval
<1> QED
  BY <1>1, <1>2 DEF Within

Area(l, n, U) == {x \in (1..n) \X U : Within(l[x[1]], x[2])}

\* The duration of a list is the number of pairs of an interval and a unit in it.
LEMMA DurationCounts ==
    ASSUME NEW n \in Nat, NEW l \in [1..n -> Iv], \A k \in 1..n : l[k].start <= l[k].end,
           NEW U \in SUBSET Int, IsFiniteSet(U), \A t \in Int : Covers(l, t) => t \in U
    PROVE  Duration(l) = Cardinality(Area(l, n, U)) /\ IsFiniteSet(Area(l, n, U))
<1> DEFINE s == [k \in 1..n |-> l[k].end - l[k].start]
           A == [k \in 1..n |-> l[k].start..(l[k].end - 1)]
<1>1. ASSUME NEW k \in 1..n
      PROVE  /\ s[k] \in Nat /\ Cardinality(A[k]) = s[k] /\ A[k] \subseteq U
             /\ \A t \in U : t \in A[k] <=> Within(l[k], t)
  <2>1. l[k] \in Iv /\ k \in DOMAIN l
    OBVIOUS
  <2>2. \A t \in A[k] : t \in Int
    OBVIOUS
  <2> QED
    BY <2>1, <2>2, UnitsOf DEF Covers
<1>2. s \in [1..n -> Nat] /\ A \in [1..n -> SUBSET U] /\ Sizes(A, s, n)
  BY <1>1 DEF Sizes
<1>3. Pairs(A, n, U) = Area(l, n, U)
  BY <1>1 DEF Pairs, Area
<1>4. Duration(l) = total(s)
  BY DEF Duration
<1> HIDE DEF s, A
<1>5. total(s) = Cardinality(Pairs(A, n, U)) /\ IsFiniteSet(Pairs(A, n, U))
  BY <1>2, TotalCounts
<1> QED
  BY <1>3, <1>4, <1>5

\* The duration of a list that is apart is the number of units it covers.
LEMMA DurationOfApart ==
    ASSUME NEW l \in Seq(Iv), Apart(l),
           NEW U \in SUBSET Int, IsFiniteSet(U), \A t \in Int : Covers(l, t) => t \in U
    PROVE  Duration(l) = Cardinality({t \in U : Covers(l, t)})
<1> DEFINE n == Len(l)
           P == Area(l, n, U)
           C == {t \in U : Covers(l, t)}
           second == [x \in P |-> x[2]]
<1>1. n \in Nat /\ l \in [1..n -> Iv] /\ DOMAIN l = 1..n
  OBVIOUS
<1>2. \A k \in 1..n : l[k].start \in Int /\ l[k].end \in Int /\ l[k].start < l[k].end
  <2>1. \A k \in 1..n : l[k] \in Iv /\ proper(l[k])
    BY <1>1 DEF Apart
  <2> QED
    BY <2>1 DEF Iv, proper
<1>3. Duration(l) = Cardinality(P) /\ IsFiniteSet(P)
  <2>1. \A k \in 1..n : l[k].start <= l[k].end
    BY <1>2
  <2> HIDE DEF n
  <2> QED
    BY <1>1, <2>1, DurationCounts
<1>p. ASSUME NEW z \in P
      PROVE  /\ z = <<z[1], z[2]>> /\ z[1] \in 1..n /\ z[2] \in U /\ Within(l[z[1]], z[2])
             /\ second[z] = z[2]
  BY DEF Area
<1>4. second \in [P -> C]
  BY <1>1, <1>p DEF Covers
<1>5. ASSUME NEW x \in P, NEW y \in P, second[x] = second[y] PROVE x = y
  <2> HIDE DEF P, second
  <2>1. /\ x = <<x[1], x[2]>> /\ y = <<y[1], y[2]>> /\ x[2] = y[2] /\ x[2] \in Int
        /\ x[1] \in 1..n /\ y[1] \in 1..n
        /\ Within(l[x[1]], x[2]) /\ Within(l[y[1]], x[2])
    BY <1>5, <1>p
  <2>2. ~(x[1] < y[1])
    BY <1>1, <1>2, <2>1 DEF Apart, Within
  <2>3. ~(y[1] < x[1])
    BY <1>1, <1>2, <2>1 DEF Apart, Within
  <2>4. x[1] = y[1]
    BY <1>1, <2>1, <2>2, <2>3
  <2> QED
    BY <2>1, <2>4
<1>6. ASSUME NEW t \in C PROVE \E x \in P : second[x] = t
  <2>1. PICK k \in 1..n : Within(l[k], t)
    BY <1>1, <1>6 DEF Covers
  <2>2. <<k, t>> \in P
    BY <2>1 DEF Area
  <2> QED
    BY <2>2
<1> HIDE DEF P, C, second
<1>7. Cardinality(C) = Cardinality(P)
  BY <1>3, <1>4, <1>5, <1>6, SameSize
<1> QED
  BY <1>3, <1>7 DEF C

-----------------------------------------------------------------------------
\* Sorting and merging.

\* r has the intervals of l, starts in order.
InOrderOf(r, l, n) ==
    /\ r \in [1..n -> Iv]
    /\ \A j, k \in 1..n : j < k => r[j].start <= r[k].start
    /\ \A k \in 1..n : \E i \in 1..n : r[k] = l[i]
    /\ \A i \in 1..n : \E k \in 1..n : r[k] = l[i]

LEMMA SortsByStart ==
    ASSUME NEW n \in Nat, NEW l \in [1..n -> Iv]
    PROVE  /\ InOrderOf(sorted(l, intervalLess), l, n)
           /\ InOrderOf(sorted(l, LAMBDA a, b : a.start < b.start), l, n)
<1> DEFINE D == 1..n
           ahead == [i \in D |-> {j \in D : intervalLess(l[j], l[i])
                                            \/ (~intervalLess(l[i], l[j]) /\ j < i)}]
           ahead2 == [i \in D |-> {j \in D : l[j].start < l[i].start
                                             \/ (~(l[i].start < l[j].start) /\ j < i)}]
<1>1. DOMAIN l = D /\ IsFiniteSet(D) /\ Cardinality(D) = n
  <2>1. IsFiniteSet(D) /\ Cardinality(D) = IF 1 > n THEN 0 ELSE n - 1 + 1
    BY FS_Interval
  <2> QED
    BY <2>1
<1>2. \A i \in D : l[i] \in Iv /\ l[i].start \in Int /\ l[i].end \in Int /\ i \in Int
  BY DEF Iv
<1>3. sorted(l, intervalLess) = arranged(l, ahead)
  BY <1>1 DEF sorted
<1>4. sorted(l, LAMBDA a, b : a.start < b.start) = arranged(l, ahead2)
  BY <1>1 DEF sorted
<1>5. Orders(ahead, D)
  BY <1>2 DEF Orders, intervalLess
<1>6. Orders(ahead2, D)
  BY <1>2 DEF Orders
<1>7. \A i \in D : \A j \in ahead[i] : l[j].start <= l[i].start
  BY <1>2 DEF intervalLess
<1>8. \A i \in D : \A j \in ahead2[i] : l[j].start <= l[i].start
  BY <1>2
<1> HIDE DEF ahead, ahead2
<1>9. ASSUME NEW a, Orders(a, D), \A i \in D : \A j \in a[i] : l[j].start <= l[i].start
      PROVE  InOrderOf(arranged(l, a), l, n)
  <2>1. PICK f : /\ Enumerates(f, D)
                 /\ \A j, k \in 1..n : j < k => f[j] \in a[f[k]]
                 /\ ReadAt(arranged(l, a), l, f, n)
    BY <1>1, <1>9, ArrangedInOrder
  <2>2. /\ \A k \in 1..n : f[k] \in D
        /\ \A i \in D : \E k \in 1..n : f[k] = i
    BY <1>1, <2>1 DEF Enumerates
  <2>3. \A j, k \in 1..n : j < k => l[f[j]].start <= l[f[k]].start
    BY <1>9, <2>1, <2>2
  <2>4. PICK v : v = arranged(l, a)
    OBVIOUS
  <2>5. v = [k \in 1..n |-> l[f[k]]]
    BY <2>1, <2>4 DEF ReadAt
  <2>6. v \in [1..n -> Iv] /\ \A k \in 1..n : v[k] = l[f[k]]
    BY <2>2, <2>5
  <2>7. InOrderOf(v, l, n)
    <3>1. ASSUME NEW i \in 1..n PROVE \E k \in 1..n : v[k] = l[i]
      <4>1. PICK k \in 1..n : f[k] = i
        BY <2>2
      <4> QED
        BY <2>6, <4>1
    <3>2. \A k \in 1..n : f[k] \in 1..n /\ v[k] = l[f[k]]
      BY <2>2, <2>6
    <3>3. \A j, k \in 1..n : j < k => v[j].start <= v[k].start
      BY <2>3, <3>2
    <3>4. \A k \in 1..n : \E i \in 1..n : v[k] = l[i]
      BY <3>2
    <3>5. v \in [1..n -> Iv]
      BY <2>6
    <3> QED
      BY <3>1, <3>3, <3>4, <3>5 DEF InOrderOf
  <2> QED
    BY <2>4, <2>7
<1> QED
  BY <1>3, <1>4, <1>5, <1>6, <1>7, <1>8, <1>9

LEMMA MergedDuration ==
    ASSUME NEW n \in Nat, NEW l \in [1..n -> Iv], \A k \in 1..n : proper(l[k]),
           NEW r, InOrderOf(r, l, n),
           NEW U \in SUBSET Int, IsFiniteSet(U), \A t \in Int : Covers(l, t) => t \in U
    PROVE  /\ Duration(loop(mergeStep, << >>, r)) = Cardinality({t \in U : Covers(l, t)})
           /\ Duration(loop(webMergeStep, << >>, r)) = Cardinality({t \in U : Covers(l, t)})
<1>1. r \in [1..n -> Iv] /\ \A j, k \in 1..n : j < k => r[j].start <= r[k].start
  BY DEF InOrderOf
<1>2. \A k \in 1..n : proper(r[k])
  BY DEF InOrderOf
<1>3. \A t \in Int : Covers(r, t) <=> Covers(l, t)
  BY DEF InOrderOf, Covers
<1>4. PICK m \in Seq(Iv) :
              /\ m = loop(mergeStep, << >>, r) /\ m = loop(webMergeStep, << >>, r)
              /\ Apart(m)
              /\ \A t \in Int : Covers(m, t) <=> Covers(r, t)
  BY <1>1, <1>2, MergedList
<1>5. Duration(m) = Cardinality({t \in U : Covers(m, t)})
  BY <1>3, <1>4, DurationOfApart
<1>6. {t \in U : Covers(m, t)} = {t \in U : Covers(l, t)}
  BY <1>3, <1>4
<1> QED
  BY <1>4, <1>5, <1>6

\* Merge measures what its argument covers, and so does mergeIntervals.
LEMMA MergeDuration ==
    ASSUME NEW n \in Nat, NEW l \in [1..n -> Iv],
           NEW U \in SUBSET Int, IsFiniteSet(U), \A t \in Int : Covers(l, t) => t \in U
    PROVE  /\ Duration(Merge(l)) = Cardinality({t \in U : Covers(l, t)})
           /\ (\A k \in 1..n : proper(l[k])) =>
                 Duration(mergeIntervals(l)) = Cardinality({t \in U : Covers(l, t)})
<1> DEFINE D == {i \in DOMAIN l : proper(l[i])}
           v == kept(l, D)
<1>1. D \in SUBSET (1..n)
  OBVIOUS
<1>d. \A i \in 1..n : i \in D <=> proper(l[i])
  OBVIOUS
<1> HIDE DEF D
<1> DEFINE m == Cardinality(D)
<1>2. PICK f : Enumerates(f, D) /\ ReadAt(v, l, f, m)
  BY <1>1, KeptInOrder
<1>3. m \in Nat
  BY <1>1, KeptInOrder, FS_CardinalityType
<1>4. /\ \A k \in 1..m : f[k] \in D
      /\ \A i \in D : \E k \in 1..m : f[k] = i
  BY <1>2 DEF Enumerates
<1>p. ReadAt(v, l, f, m)
  BY <1>2
<1> HIDE DEF v, m
<1>5. /\ v \in [1..m -> Iv] /\ \A k \in 1..m : proper(v[k])
      /\ DOMAIN v = 1..m /\ \A k \in 1..m : v[k] = l[f[k]]
  BY <1>1, <1>p, <1>4, <1>d DEF ReadAt
<1>6. \A t \in Int : Covers(v, t) <=> Covers(l, t)
  <2>1. \A i \in 1..n, t \in Int : Within(l[i], t) => i \in D
    <3> SUFFICES ASSUME NEW i \in 1..n, NEW t \in Int, Within(l[i], t) PROVE proper(l[i])
      BY <1>d
    <3>1. l[i].start \in Int /\ l[i].end \in Int
      BY DEF Iv
    <3> QED
      BY <3>1 DEF Within, proper
  <2>2. ASSUME NEW t \in Int, Covers(v, t) PROVE Covers(l, t)
    <3>1. PICK k \in 1..m : Within(v[k], t)
      BY <1>5, <2>2 DEF Covers
    <3>2. f[k] \in DOMAIN l /\ v[k] = l[f[k]]
      BY <1>1, <1>4, <1>5
    <3> QED
      BY <3>1, <3>2 DEF Covers
  <2>3. ASSUME NEW t \in Int, Covers(l, t) PROVE Covers(v, t)
    <3>1. PICK i \in 1..n : Within(l[i], t)
      BY <2>3 DEF Covers
    <3>2. PICK k \in 1..m : f[k] = i
      BY <1>4, <2>1, <3>1
    <3>3. k \in DOMAIN v /\ v[k] = l[i]
      BY <1>5, <3>2
    <3> QED
      BY <3>1, <3>3 DEF Covers
  <2> QED
    BY <2>2, <2>3
<1>7. Duration(Merge(l)) = Cardinality({t \in U : Covers(l, t)})
  <2>1. Merge(l) = loop(mergeStep, << >>, sorted(v, intervalLess))
    BY DEF Merge, v, D
  <2>2. InOrderOf(sorted(v, intervalLess), v, m)
    BY <1>3, <1>5, SortsByStart
  <2>3. Duration(Merge(l)) = Cardinality({t \in U : Covers(v, t)})
    BY <1>3, <1>5, <1>6, <2>1, <2>2, MergedDuration
  <2>4. {t \in U : Covers(v, t)} = {t \in U : Covers(l, t)}
    BY <1>6
  <2> QED
    BY <2>3, <2>4
<1>8. ASSUME \A k \in 1..n : proper(l[k])
      PROVE  Duration(mergeIntervals(l)) = Cardinality({t \in U : Covers(l, t)})
  <2> DEFINE r == sorted(l, LAMBDA a, b : a.start < b.start)
  <2>1. mergeIntervals(l) = loop(webMergeStep, << >>, r)
    BY DEF mergeIntervals
  <2>2. InOrderOf(r, l, n)
    BY SortsByStart
  <2> HIDE DEF r
  <2> QED
    BY <1>8, <2>1, <2>2, MergedDuration
<1> QED
  BY <1>7, <1>8

-----------------------------------------------------------------------------
\* The runs of a window.

Active(r, now, t) == r.started <= t /\ t < runEnd(r, now)

UnitsIn(from, to) == from..(to - 1)

LEMMA ClippedFacts ==
    ASSUME NEW r \in Run, NEW from \in Int, NEW to \in Int, NEW now \in Int
    PROVE  LET c == clipped(r, from, to, now)
           IN  /\ c \in Iv /\ c.start >= from
               /\ \A t \in Int : Within(c, t) <=> t \in UnitsIn(from, to) /\ Active(r, now, t)
               /\ \A t \in Int : Within(c, t) => proper(c)
               /\ proper(c) => /\ r.started < to /\ runEnd(r, now) > from
                               /\ c.start \in UnitsIn(from, to)
<1> DEFINE s == r.started
           e == runEnd(r, now)
           c == clipped(r, from, to, now)
<1>1. s \in Int /\ e \in Int
  BY TimeAccountingAssumption DEF Run, Instants, runEnd, NoTime
<1>2. c = [start |-> later(s, from), end |-> earlier(e, to)]
  BY DEF clipped, Clip
<1>3. \A t \in Int : Active(r, now, t) <=> s <= t /\ t < e
  BY DEF Active
<1> HIDE DEF s, e, c
<1>4. c \in Iv /\ c.start = later(s, from) /\ c.end = earlier(e, to)
  BY <1>1, <1>2 DEF Iv, later, earlier
<1>5. /\ c.start >= from
      /\ \A t \in Int : Within(c, t) <=> t \in UnitsIn(from, to) /\ Active(r, now, t)
  BY <1>1, <1>3, <1>4 DEF Within, UnitsIn, later, earlier
<1>6. \A t \in Int : Within(c, t) => proper(c)
  BY <1>1, <1>4 DEF Within, proper, later, earlier
<1>7. proper(c) => s < to /\ e > from /\ c.start \in UnitsIn(from, to)
  BY <1>1, <1>4 DEF proper, UnitsIn, later, earlier
<1> QED
  BY <1>4, <1>5, <1>6, <1>7 DEF s, e, c

-----------------------------------------------------------------------------
\* Lists of runs, as the places they take from the table.

\* v has the elements of s at the places D, place f[k] at k.
Picks(v, s, f, D) == Enumerates(f, D) /\ ReadAt(v, s, f, Cardinality(D))

LEMMA PicksFacts ==
    ASSUME NEW D, IsFiniteSet(D), NEW s, NEW v, NEW f, Picks(v, s, f, D)
    PROVE  /\ Cardinality(D) \in Nat
           /\ DOMAIN v = 1..Cardinality(D) /\ Len(v) = Cardinality(D)
           /\ \A k \in 1..Cardinality(D) : f[k] \in D /\ v[k] = s[f[k]]
           /\ \A i \in D : \E k \in 1..Cardinality(D) : f[k] = i
           /\ \A j, k \in 1..Cardinality(D) : f[j] = f[k] => j = k
<1> DEFINE m == Cardinality(D)
<1>1. m \in Nat
  BY FS_CardinalityType
<1>2. v = [k \in 1..m |-> s[f[k]]]
  BY DEF Picks, ReadAt
<1>3. /\ f \in [1..m -> D]
      /\ \A k, l \in 1..m : f[k] = f[l] => k = l
      /\ \A i \in D : \E k \in 1..m : f[k] = i
  BY DEF Picks, Enumerates
<1> HIDE DEF m
<1>4. DOMAIN v = 1..m /\ \A k \in 1..m : f[k] \in D /\ v[k] = s[f[k]]
  BY <1>2, <1>3
<1>5. v \in [1..m -> {s[i] : i \in D}]
  BY <1>2, <1>3
<1>6. Len(v) = m
  BY <1>1, <1>5, IsList
<1> QED
  BY <1>1, <1>3, <1>4, <1>6 DEF m

\* Sizes are the same in the list and in the table.
LEMMA SizeThrough ==
    ASSUME NEW D, IsFiniteSet(D), NEW f, Enumerates(f, D),
           NEW A \in SUBSET (1..Cardinality(D)), NEW B \in SUBSET D,
           \A k \in 1..Cardinality(D) : k \in A <=> f[k] \in B
    PROVE  IsFiniteSet(B) /\ Cardinality(A) = Cardinality(B)
<1> DEFINE h == [k \in A |-> f[k]]
           m == Cardinality(D)
<1>1. IsFiniteSet(A) /\ IsFiniteSet(B)
  <2>1. m \in Nat
    BY FS_CardinalityType
  <2>2. IsFiniteSet(1..m)
    BY <2>1, FS_Interval
  <2> QED
    BY <2>2, FS_Subset
<1>2. /\ \A k \in A : h[k] = f[k] /\ h[k] \in B
      /\ \A j, k \in A : f[j] = f[k] => j = k
      /\ \A i \in B : \E k \in A : f[k] = i
      /\ h \in [A -> B]
  BY DEF Enumerates
<1> HIDE DEF h
<1>3. /\ \A j, k \in A : h[j] = h[k] => j = k
      /\ \A i \in B : \E k \in A : h[k] = i
  BY <1>2
<1> QED
  BY <1>1, <1>2, <1>3, SameSize

\* A pair is in A when the pair read through f is in B.
Matches(A, B, f, m, U) ==
    \A k \in 1..m, t \in U : <<k, t>> \in A <=> <<f[k], t>> \in B

LEMMA PairsThrough ==
    ASSUME NEW D, IsFiniteSet(D), NEW f, Enumerates(f, D), NEW U,
           NEW A \in SUBSET ((1..Cardinality(D)) \X U), NEW B \in SUBSET (D \X U),
           IsFiniteSet(A), Matches(A, B, f, Cardinality(D), U)
    PROVE  Cardinality(A) = Cardinality(B)
<1> DEFINE h == [x \in A |-> <<f[x[1]], x[2]>>]
<1>1. ASSUME NEW x \in A
      PROVE  /\ x = <<x[1], x[2]>> /\ x[1] \in 1..Cardinality(D) /\ x[2] \in U
             /\ h[x] = <<f[x[1]], x[2]>> /\ h[x] \in B
  BY DEF Matches
<1>2. h \in [A -> B]
  BY <1>1
<1> HIDE DEF h
<1>3. ASSUME NEW x \in A, NEW y \in A, h[x] = h[y] PROVE x = y
  <2>1. f[x[1]] = f[y[1]] /\ x[2] = y[2]
    BY <1>1, <1>3
  <2>2. x[1] = y[1]
    BY <1>1, <2>1 DEF Enumerates
  <2> QED
    BY <1>1, <2>1, <2>2
<1>4. ASSUME NEW z \in B PROVE \E x \in A : h[x] = z
  <2>1. z = <<z[1], z[2]>> /\ z[1] \in D /\ z[2] \in U
    OBVIOUS
  <2>2. PICK k \in 1..Cardinality(D) : f[k] = z[1]
    BY <2>1 DEF Enumerates
  <2>3. PICK x : x = <<k, z[2]>>
    OBVIOUS
  <2>4. x \in A /\ x[1] = k /\ x[2] = z[2]
    BY <2>1, <2>2, <2>3 DEF Matches
  <2>5. h[x] = <<z[1], z[2]>>
    BY <1>1, <2>2, <2>4
  <2> QED
    BY <2>1, <2>4, <2>5
<1> QED
  BY <1>2, <1>3, <1>4, SameSize

LEMMA FinitePlaces ==
    ASSUME NEW n \in Nat, NEW D \in SUBSET (1..n)
    PROVE  IsFiniteSet(D)
<1>1. IsFiniteSet(1..n)
  BY FS_Interval
<1> QED
  BY <1>1, FS_Subset

\* Keeping is picking, and keeping what was picked is picking.
LEMMA KeptPicks ==
    ASSUME NEW n \in Nat, NEW D \in SUBSET (1..n), NEW s
    PROVE  \E f : Picks(kept(s, D), s, f, D)
BY KeptInOrder DEF Picks

LEMMA KeptTwice ==
    ASSUME NEW D, IsFiniteSet(D), NEW s, NEW v, NEW f, Picks(v, s, f, D),
           NEW E \in SUBSET D, NEW K \in SUBSET (1..Cardinality(D)),
           \A k \in 1..Cardinality(D) : k \in K <=> f[k] \in E
    PROVE  \E g : Picks(kept(v, K), s, g, E)
<1> DEFINE m == Cardinality(D)
<1>1. /\ m \in Nat
      /\ \A k \in 1..m : f[k] \in D /\ v[k] = s[f[k]]
  BY PicksFacts
<1>e. Enumerates(f, D)
  BY DEF Picks
<1>2. IsFiniteSet(E) /\ Cardinality(K) = Cardinality(E)
  BY <1>1, <1>e, SizeThrough
<1>3. PICK h : Picks(kept(v, K), v, h, K)
  BY <1>1, KeptPicks
<1> DEFINE w == kept(v, K)
           q == Cardinality(K)
           g == [k \in 1..q |-> f[h[k]]]
<1>4. h \in [1..q -> K] /\ (\A k, l \in 1..q : h[k] = h[l] => k = l)
      /\ \A i \in K : \E k \in 1..q : h[k] = i
  BY <1>3 DEF Picks, Enumerates
<1>5. w = [k \in 1..q |-> v[h[k]]]
  BY <1>3 DEF Picks, ReadAt
<1> HIDE DEF w, q
<1>6. \A k \in 1..q : h[k] \in 1..m /\ h[k] \in K /\ g[k] = f[h[k]] /\ g[k] \in E
  BY <1>4
<1>7. g \in [1..q -> E]
  BY <1>6
<1>8. w = [k \in 1..q |-> s[g[k]]]
  BY <1>1, <1>5, <1>6
<1> HIDE DEF g
<1>9. ASSUME NEW k \in 1..q, NEW l \in 1..q, g[k] = g[l] PROVE k = l
  BY <1>e, <1>4, <1>6, <1>9 DEF Enumerates
<1>10. ASSUME NEW i \in E PROVE \E k \in 1..q : g[k] = i
  <2>1. PICK j \in 1..m : f[j] = i
    BY <1>e DEF Enumerates
  <2>2. PICK k \in 1..q : h[k] = j
    BY <1>4, <2>1
  <2> QED
    BY <1>6, <2>1, <2>2
<1>11. Picks(w, s, g, E)
  BY <1>2, <1>7, <1>8, <1>9, <1>10 DEF Picks, Enumerates, ReadAt, q
<1> QED
  BY <1>11 DEF w

\* The units in which some run of D is active.
BusyUnits(s, D, from, to, now) ==
    {t \in UnitsIn(from, to) : \E i \in D : Active(s[i], now, t)}

\* A run of D and a unit in which it is active.
Work(s, D, from, to, now) ==
    {x \in D \X UnitsIn(from, to) : Active(s[x[1]], now, x[2])}

LEMMA FiniteUnits ==
    ASSUME NEW from \in Int, NEW to \in Int
    PROVE  IsFiniteSet(UnitsIn(from, to)) /\ UnitsIn(from, to) \in SUBSET Int
<1>1. to - 1 \in Int
  OBVIOUS
<1> QED
  BY <1>1, FS_Interval DEF UnitsIn

LEMMA PickedIntervals ==
    ASSUME NEW s \in Seq(Run), NEW from \in Int, NEW to \in Int, NEW now \in Int,
           NEW D \in SUBSET (1..Len(s)), NEW v, NEW f, Picks(v, s, f, D)
    PROVE  LET l == intervalsOf(v, from, to, now)
               n == Cardinality(D)
           IN  /\ n \in Nat /\ l \in [1..n -> Iv]
               /\ \A k \in 1..n : f[k] \in D /\ f[k] \in 1..Len(s) /\ s[f[k]] \in Run
                                  /\ l[k] = clipped(s[f[k]], from, to, now)
               /\ \A t \in Int : Covers(l, t) => t \in UnitsIn(from, to)
<1> DEFINE n == Cardinality(D)
           l == intervalsOf(v, from, to, now)
<1>1. /\ n \in Nat /\ DOMAIN v = 1..n
      /\ \A k \in 1..n : f[k] \in D /\ v[k] = s[f[k]]
  <2>1. IsFiniteSet(D)
    <3>1. Len(s) \in Nat
      OBVIOUS
    <3> QED
      BY <3>1, FinitePlaces
  <2> QED
    BY <2>1, PicksFacts
<1> HIDE DEF n
<1>2. \A k \in 1..n : f[k] \in 1..Len(s) /\ s[f[k]] \in Run
  <2>1. \A i \in D : i \in 1..Len(s) /\ s[i] \in Run
    OBVIOUS
  <2> QED
    BY <1>1, <2>1
<1>3. l = [k \in 1..n |-> clipped(v[k], from, to, now)]
  BY <1>1 DEF intervalsOf
<1> HIDE DEF l
<1>4. \A k \in 1..n : l[k] = clipped(s[f[k]], from, to, now)
  BY <1>1, <1>3
<1>5. \A k \in 1..n : l[k] \in Iv /\ \A t \in Int : Within(l[k], t) => t \in UnitsIn(from, to)
  BY <1>2, <1>4, ClippedFacts
<1>6. l \in [1..n -> Iv] /\ DOMAIN l = 1..n
  BY <1>3, <1>5
<1>7. \A t \in Int : Covers(l, t) => t \in UnitsIn(from, to)
  BY <1>5, <1>6 DEF Covers
<1> QED
  BY <1>1, <1>2, <1>4, <1>6, <1>7 DEF n, l

\* The merged time of picked runs, and their added time.
LEMMA PickedDurations ==
    ASSUME NEW s \in Seq(Run), NEW from \in Int, NEW to \in Int, NEW now \in Int,
           NEW D \in SUBSET (1..Len(s)), NEW v, NEW f, Picks(v, s, f, D)
    PROVE  /\ Duration(Merge(intervalsOf(v, from, to, now))) =
                 Cardinality(BusyUnits(s, D, from, to, now))
           /\ (\A i \in D : proper(clipped(s[i], from, to, now))) =>
                 /\ Duration(intervalsOf(v, from, to, now)) = Cardinality(Work(s, D, from, to, now))
                 /\ Duration(mergeIntervals(intervalsOf(v, from, to, now))) =
                       Cardinality(BusyUnits(s, D, from, to, now))
<1> DEFINE n == Cardinality(D)
           l == intervalsOf(v, from, to, now)
           U == UnitsIn(from, to)
<1>1. /\ n \in Nat /\ l \in [1..n -> Iv]
      /\ \A k \in 1..n : f[k] \in D /\ f[k] \in 1..Len(s) /\ s[f[k]] \in Run
                         /\ l[k] = clipped(s[f[k]], from, to, now)
      /\ \A t \in Int : Covers(l, t) => t \in U
  BY PickedIntervals
<1>2. /\ IsFiniteSet(D) /\ Enumerates(f, D)
      /\ \A i \in D : \E k \in 1..n : f[k] = i
  <2>1. IsFiniteSet(D)
    <3>1. Len(s) \in Nat
      OBVIOUS
    <3> QED
      BY <3>1, FinitePlaces
  <2> QED
    BY <2>1 DEF Picks, Enumerates
<1>3. IsFiniteSet(U) /\ U \in SUBSET Int /\ \A t \in U : t \in Int
  BY FiniteUnits
<1> HIDE DEF n, l
<1>4. \A k \in 1..n, t \in U : Within(l[k], t) <=> Active(s[f[k]], now, t)
  BY <1>1, <1>3, ClippedFacts
<1>5. DOMAIN l = 1..n
  BY <1>1
<1>6. {t \in U : Covers(l, t)} = BusyUnits(s, D, from, to, now)
  <2>1. ASSUME NEW t \in U PROVE Covers(l, t) <=> \E i \in D : Active(s[i], now, t)
    <3>1. Covers(l, t) <=> \E k \in 1..n : Active(s[f[k]], now, t)
      BY <1>4, <1>5 DEF Covers
    <3> QED
      BY <1>1, <1>2, <3>1
  <2> QED
    BY <2>1 DEF BusyUnits
<1>7. Duration(Merge(l)) = Cardinality(BusyUnits(s, D, from, to, now))
  <2> HIDE DEF U
  <2>1. Duration(Merge(l)) = Cardinality({t \in U : Covers(l, t)})
    BY <1>1, <1>3, MergeDuration
  <2> QED
    BY <1>6, <2>1
<1>8. ASSUME \A i \in D : proper(clipped(s[i], from, to, now))
      PROVE  Duration(l) = Cardinality(Work(s, D, from, to, now))
  <2>1. \A k \in 1..n : l[k].start <= l[k].end
    <3>1. \A k \in 1..n : l[k] \in Iv /\ proper(l[k])
      BY <1>1, <1>8
    <3> QED
      BY <3>1 DEF Iv, proper
  <2>2. \A k \in 1..n, t \in U : <<k, t>> \in Area(l, n, U) <=>
                                 <<f[k], t>> \in Work(s, D, from, to, now)
    BY <1>1, <1>4 DEF Area, Work
  <2>3. Area(l, n, U) \in SUBSET ((1..n) \X U) /\ Work(s, D, from, to, now) \in SUBSET (D \X U)
    BY DEF Area, Work
  <2> HIDE DEF U
  <2>4. Duration(l) = Cardinality(Area(l, n, U)) /\ IsFiniteSet(Area(l, n, U))
    BY <1>1, <1>3, <2>1, DurationCounts
  <2>5. Cardinality(Area(l, n, U)) = Cardinality(Work(s, D, from, to, now))
    <3> DEFINE A == Area(l, n, U)
               B == Work(s, D, from, to, now)
    <3>1. /\ IsFiniteSet(A)
          /\ A \in SUBSET ((1..Cardinality(D)) \X U) /\ B \in SUBSET (D \X U)
          /\ Matches(A, B, f, Cardinality(D), U)
      BY <2>2, <2>3, <2>4 DEF n, Matches
    <3> HIDE DEF A, B
    <3>2. Cardinality(A) = Cardinality(B)
      BY <1>2, <3>1, PairsThrough
    <3> QED
      BY <3>2 DEF A, B
  <2> QED
    BY <2>4, <2>5
<1>9. ASSUME \A i \in D : proper(clipped(s[i], from, to, now))
      PROVE  Duration(mergeIntervals(l)) = Cardinality(BusyUnits(s, D, from, to, now))
  <2>1. \A k \in 1..n : proper(l[k])
    BY <1>1, <1>9
  <2> HIDE DEF U
  <2>2. Duration(mergeIntervals(l)) = Cardinality({t \in U : Covers(l, t)})
    BY <1>1, <1>3, <2>1, MergeDuration
  <2> QED
    BY <1>6, <2>2
<1> QED
  BY <1>7, <1>8, <1>9 DEF l

-----------------------------------------------------------------------------
\* The figures of a summary.

\* The runs of the table with time in the window.
InWindow(s, from, to, now) ==
    {i \in 1..Len(s) : proper(clipped(s[i], from, to, now))}

LEMMA CountedPicks ==
    ASSUME NEW s \in Seq(Run), NEW from \in Int, NEW to \in Int, NEW now \in Int
    PROVE  \E f : Picks(counted(selected(s, from, to, now), from, to, now), s, f,
                        InWindow(s, from, to, now))
<1> DEFINE D == {i \in DOMAIN s : s[i].started < to /\ runEnd(s[i], now) > from}
           E == InWindow(s, from, to, now)
           v == selected(s, from, to, now)
           K == {i \in DOMAIN v : proper(clipped(v[i], from, to, now))}
<1>1. Len(s) \in Nat /\ D \in SUBSET (1..Len(s)) /\ v = kept(s, D)
  BY DEF selected
<1>2. E \in SUBSET D
  <2>1. \A i \in 1..Len(s) : i \in DOMAIN s /\ s[i] \in Run
    OBVIOUS
  <2> QED
    BY <2>1, ClippedFacts DEF InWindow
<1>3. \A i \in D : i \in E <=> proper(clipped(s[i], from, to, now))
  BY <1>1 DEF InWindow
<1>4. counted(v, from, to, now) = kept(v, K)
  BY DEF counted
<1> HIDE DEF D, E, v
<1>5. IsFiniteSet(D)
  BY <1>1, FinitePlaces
<1>6. PICK f : Picks(v, s, f, D)
  BY <1>1, KeptPicks
<1>7. /\ DOMAIN v = 1..Cardinality(D)
      /\ \A k \in 1..Cardinality(D) : f[k] \in D /\ v[k] = s[f[k]]
  BY <1>5, <1>6, PicksFacts
<1>8. K \in SUBSET (1..Cardinality(D)) /\ \A k \in 1..Cardinality(D) : k \in K <=> f[k] \in E
  BY <1>3, <1>7
<1> HIDE DEF K
<1>9. \E g : Picks(kept(v, K), s, g, E)
  BY <1>2, <1>5, <1>6, <1>8, KeptTwice
<1> QED
  BY <1>4, <1>9 DEF v, E

\* The runs that belong to a project, in a list and in the table.
ownRuns(c, p) == kept(c, {i \in DOMAIN c : c[i].project = p})

ownPlaces(s, D, p) == {i \in D : s[i].project = p}

LEMMA OwnPicks ==
    ASSUME NEW D, IsFiniteSet(D), NEW s, NEW c, NEW f, Picks(c, s, f, D), NEW p
    PROVE  \E g : Picks(ownRuns(c, p), s, g, ownPlaces(s, D, p))
<1> DEFINE E == ownPlaces(s, D, p)
           K == {i \in DOMAIN c : c[i].project = p}
<1>1. /\ DOMAIN c = 1..Cardinality(D)
      /\ \A k \in 1..Cardinality(D) : f[k] \in D /\ c[k] = s[f[k]]
  BY PicksFacts
<1>2. /\ E \in SUBSET D /\ K \in SUBSET (1..Cardinality(D))
      /\ \A k \in 1..Cardinality(D) : k \in K <=> f[k] \in E
  BY <1>1 DEF ownPlaces
<1>3. ownRuns(c, p) = kept(c, K)
  BY DEF ownRuns
<1> HIDE DEF E, K
<1>4. \E g : Picks(kept(c, K), s, g, E)
  BY <1>2, KeptTwice
<1> QED
  BY <1>3, <1>4 DEF E

LEMMA OwnSpan ==
    ASSUME NEW s \in Seq(Run), NEW from \in Int, NEW to \in Int, NEW now \in Int,
           NEW D \in SUBSET (1..Len(s)), NEW c, NEW f, Picks(c, s, f, D), NEW p
    PROVE  Duration(Merge(intervalsOf(ownRuns(c, p), from, to, now))) =
               Cardinality(BusyUnits(s, ownPlaces(s, D, p), from, to, now))
<1> DEFINE v == ownRuns(c, p)
           E == ownPlaces(s, D, p)
<1>1. IsFiniteSet(D)
  <2>1. Len(s) \in Nat
    OBVIOUS
  <2> QED
    BY <2>1, FinitePlaces
<1>2. PICK g : Picks(v, s, g, E)
  BY <1>1, OwnPicks
<1>3. E \in SUBSET (1..Len(s))
  BY DEF ownPlaces
<1> HIDE DEF v, E
<1>4. Duration(Merge(intervalsOf(v, from, to, now))) = Cardinality(BusyUnits(s, E, from, to, now))
  BY <1>2, <1>3, PickedDurations
<1> QED
  BY <1>4 DEF v, E

ProjectsOf(c) == {c[i].project : i \in DOMAIN c}

SpanOf(c, from, to, now) ==
    [p \in ProjectsOf(c) |-> Duration(Merge(intervalsOf(ownRuns(c, p), from, to, now)))]

LEMMA SummaryFields ==
    ASSUME NEW s, NEW from, NEW to, NEW now, NEW c, NEW span, NEW order,
           c = counted(selected(s, from, to, now), from, to, now),
           span = SpanOf(c, from, to, now), order = SetToSeq(ProjectsOf(c))
    PROVE  LET all == intervalsOf(c, from, to, now)
               sum == summary(s, from, to, now)
           IN  /\ sum.sessionAgentTime = Duration(all)
               /\ sum.wallClock = Duration(Merge(all))
               /\ sum.projectSpan = span
               /\ sum.agentTime = total([k \in DOMAIN order |-> span[order[k]]])
<1> DEFINE sel == selected(s, from, to, now)
<1>1. summary(s, from, to, now) = Summarize(sel, from, to, now)
  BY DEF summary
<1> HIDE DEF sel
<1> QED
  BY <1>1 DEF Summarize, SpanOf, ProjectsOf, ownRuns, sel

\* A project and a unit in which one of the runs of D works on it.
ProjectWork(s, D, from, to, now) ==
    {x \in {s[i].project : i \in D} \X UnitsIn(from, to) :
        \E i \in D : s[i].project = x[1] /\ Active(s[i], now, x[2])}

LEMMA SetInOrder ==
    ASSUME NEW S, IsFiniteSet(S)
    PROVE  Enumerates(SetToSeq(S), S)
<1> DEFINE n == Cardinality(S)
<1>1. n \in Nat /\ IsFiniteSet(1..n) /\ Cardinality(1..n) = n
  <2>1. n \in Nat
    BY FS_CardinalityType
  <2>2. IsFiniteSet(1..n) /\ Cardinality(1..n) = IF 1 > n THEN 0 ELSE n - 1 + 1
    BY <2>1, FS_Interval
  <2> QED
    BY <2>1, <2>2
<1>2. PICK g : g \in Bijection(1..n, S)
  BY FS_CardinalityType DEF ExistsBijection
<1>3. PICK f : f = SetToSeq(S)
  OBVIOUS
<1>4. g \in [1..n -> S] /\ \A a, b \in 1..n : g[a] = g[b] => a = b
  BY <1>2 DEF Bijection, Injection, IsInjective
<1>5. f \in [1..n -> S] /\ \A a, b \in 1..n : f[a] = f[b] => a = b
  <2>1. f = CHOOSE h \in [1..n -> S] : \A a, b \in DOMAIN h : h[a] = h[b] => a = b
    BY <1>3 DEF SetToSeq, IsInjective
  <2>2. \E h \in [1..n -> S] : \A a, b \in DOMAIN h : h[a] = h[b] => a = b
    <3>1. \A a, b \in DOMAIN g : g[a] = g[b] => a = b
      BY <1>4
    <3> QED
      BY <1>4, <3>1
  <2>3. f \in [1..n -> S] /\ \A a, b \in DOMAIN f : f[a] = f[b] => a = b
    BY <2>1, <2>2
  <2> QED
    BY <2>3
<1>6. f \in Surjection(1..n, S)
  <2>1. f \in Injection(1..n, S)
    BY <1>5 DEF Injection, IsInjective
  <2> QED
    BY <1>1, <2>1, FS_Injection
<1> QED
  BY <1>3, <1>5, <1>6 DEF Enumerates, Surjection

LEMMA SummaryMeasures ==
    ASSUME NEW s \in Seq(Run), NEW from \in Int, NEW to \in Int, NEW now \in Int,
           NEW D, D = InWindow(s, from, to, now)
    PROVE  LET sum == summary(s, from, to, now)
           IN  /\ sum.wallClock = Cardinality(BusyUnits(s, D, from, to, now))
               /\ sum.sessionAgentTime = Cardinality(Work(s, D, from, to, now))
               /\ DOMAIN sum.projectSpan = {s[i].project : i \in D}
               /\ \A p \in DOMAIN sum.projectSpan :
                     sum.projectSpan[p] =
                         Cardinality(BusyUnits(s, ownPlaces(s, D, p), from, to, now))
               /\ sum.agentTime = Cardinality(ProjectWork(s, D, from, to, now))
<1> DEFINE c == counted(selected(s, from, to, now), from, to, now)
           sum == summary(s, from, to, now)
           P == {s[i].project : i \in D}
           U == UnitsIn(from, to)
           n == Cardinality(P)
           order == SetToSeq(P)
           A == [k \in 1..n |-> BusyUnits(s, ownPlaces(s, D, order[k]), from, to, now)]
<1>1. /\ Len(s) \in Nat /\ D \in SUBSET (1..Len(s))
      /\ \A i \in D : proper(clipped(s[i], from, to, now))
  BY DEF InWindow
<1>2. IsFiniteSet(D) /\ IsFiniteSet(U)
  BY <1>1, FinitePlaces, FiniteUnits
<1>3. PICK f : Picks(c, s, f, D)
  BY CountedPicks
<1>4. ProjectsOf(c) = P
  <2> HIDE DEF c
  <2>1. /\ DOMAIN c = 1..Cardinality(D)
        /\ \A k \in 1..Cardinality(D) : f[k] \in D /\ c[k] = s[f[k]]
        /\ \A i \in D : \E k \in 1..Cardinality(D) : f[k] = i
    BY <1>2, <1>3, PicksFacts
  <2> QED
    BY <2>1 DEF ProjectsOf
<1>5. /\ sum.sessionAgentTime = Duration(intervalsOf(c, from, to, now))
      /\ sum.wallClock = Duration(Merge(intervalsOf(c, from, to, now)))
      /\ sum.projectSpan = SpanOf(c, from, to, now)
      /\ sum.agentTime = total([k \in DOMAIN order |-> SpanOf(c, from, to, now)[order[k]]])
  <2> DEFINE span == SpanOf(c, from, to, now)
  <2>1. order = SetToSeq(ProjectsOf(c))
    BY <1>4
  <2> HIDE DEF c, sum, order, span, P
  <2>2. /\ sum.sessionAgentTime = Duration(intervalsOf(c, from, to, now))
        /\ sum.wallClock = Duration(Merge(intervalsOf(c, from, to, now)))
        /\ sum.projectSpan = span
        /\ sum.agentTime = total([k \in DOMAIN order |-> span[order[k]]])
    BY <2>1, SummaryFields DEF c, sum, span
  <2> QED
    BY <2>2 DEF span
<1> HIDE DEF c, sum
<1>6. /\ sum.wallClock = Cardinality(BusyUnits(s, D, from, to, now))
      /\ sum.sessionAgentTime = Cardinality(Work(s, D, from, to, now))
  BY <1>1, <1>3, <1>5, PickedDurations
<1>7. ASSUME NEW p \in P
      PROVE  SpanOf(c, from, to, now)[p] =
                 Cardinality(BusyUnits(s, ownPlaces(s, D, p), from, to, now))
  <2>1. Duration(Merge(intervalsOf(ownRuns(c, p), from, to, now))) =
            Cardinality(BusyUnits(s, ownPlaces(s, D, p), from, to, now))
    <3> HIDE DEF P, U
    <3> QED
      BY <1>1, <1>3, OwnSpan
  <2> QED
    BY <1>4, <2>1 DEF SpanOf
<1>8. DOMAIN sum.projectSpan = P
  BY <1>4, <1>5 DEF SpanOf
<1>9. IsFiniteSet(P)
  <2> DEFINE h == [i \in D |-> s[i].project]
  <2>1. h \in Surjection(D, P)
    BY DEF Surjection
  <2> HIDE DEF h
  <2> QED
    BY <1>2, <2>1, FS_Surjection
<1>10. Enumerates(order, P) /\ n \in Nat
  BY <1>9, SetInOrder, FS_CardinalityType
<1>11. order \in [1..n -> P]
  BY <1>10 DEF Enumerates
<1> DEFINE sizes == [k \in DOMAIN order |-> SpanOf(c, from, to, now)[order[k]]]
<1>12. ASSUME NEW k \in 1..n
       PROVE  /\ A[k] \in SUBSET U /\ order[k] \in P
              /\ sizes[k] = Cardinality(A[k]) /\ sizes[k] \in Nat
  <2> DEFINE X == BusyUnits(s, ownPlaces(s, D, order[k]), from, to, now)
  <2>1. order[k] \in P
    BY <1>11
  <2>2. X \in SUBSET U
    BY DEF BusyUnits
  <2>3. A[k] = X
    OBVIOUS
  <2>4. sizes[k] = Cardinality(X)
    BY <1>7, <1>11, <2>1
  <2> HIDE DEF X
  <2>5. Cardinality(X) \in Nat
    BY <1>2, <2>2, FS_Subset, FS_CardinalityType
  <2> QED
    BY <2>1, <2>2, <2>3, <2>4, <2>5
<1>13. DOMAIN order = 1..n
  BY <1>11
<1>14. /\ sizes \in [1..n -> Nat] /\ A \in [1..n -> SUBSET U] /\ Sizes(A, sizes, n)
  BY <1>12, <1>13 DEF Sizes
<1>15. Matches(Pairs(A, n, U), ProjectWork(s, D, from, to, now), order, n, U)
  <2> SUFFICES ASSUME NEW k \in 1..n, NEW t \in U
               PROVE  <<k, t>> \in Pairs(A, n, U) <=>
                      <<order[k], t>> \in ProjectWork(s, D, from, to, now)
    BY DEF Matches
  <2>1. order[k] \in P
    BY <1>12
  <2>2. <<k, t>> \in Pairs(A, n, U) <=> \E i \in D : s[i].project = order[k] /\ Active(s[i], now, t)
    BY DEF Pairs, BusyUnits, ownPlaces
  <2>3. <<order[k], t>> \in ProjectWork(s, D, from, to, now) <=>
            \E i \in D : s[i].project = order[k] /\ Active(s[i], now, t)
    BY <2>1 DEF ProjectWork
  <2> QED
    BY <2>2, <2>3
<1>16. Pairs(A, n, U) \in SUBSET ((1..n) \X U) /\ ProjectWork(s, D, from, to, now) \in SUBSET (P \X U)
  BY DEF Pairs, ProjectWork
<1>17. sum.agentTime = total(sizes)
  BY <1>5
<1> HIDE DEF A, sizes, P, order, U
<1>18. total(sizes) = Cardinality(Pairs(A, n, U)) /\ IsFiniteSet(Pairs(A, n, U))
  BY <1>2, <1>10, <1>14, TotalCounts
<1>19. Cardinality(Pairs(A, n, U)) = Cardinality(ProjectWork(s, D, from, to, now))
  BY <1>9, <1>10, <1>15, <1>16, <1>18, PairsThrough
<1> QED
  BY <1>5, <1>6, <1>7, <1>8, <1>17, <1>18, <1>19 DEF sum, P

\* Runs without time in the window add nothing to it.
LEMMA WholeTable ==
    ASSUME NEW s \in Seq(Run), NEW from \in Int, NEW to \in Int, NEW now \in Int,
           NEW D, D = InWindow(s, from, to, now)
    PROVE  /\ BusyUnits(s, D, from, to, now) = BusyUnits(s, 1..Len(s), from, to, now)
           /\ Work(s, D, from, to, now) = Work(s, 1..Len(s), from, to, now)
           /\ ProjectWork(s, D, from, to, now) = ProjectWork(s, 1..Len(s), from, to, now)
           /\ \A p : BusyUnits(s, ownPlaces(s, D, p), from, to, now) =
                     BusyUnits(s, ownPlaces(s, 1..Len(s), p), from, to, now)
<1> DEFINE U == UnitsIn(from, to)
<1>1. D \in SUBSET (1..Len(s)) /\ \A t \in U : t \in Int
  BY FiniteUnits DEF InWindow
<1>2. ASSUME NEW i \in 1..Len(s), NEW t \in U, Active(s[i], now, t) PROVE i \in D
  <2>1. s[i] \in Run
    OBVIOUS
  <2> QED
    BY <1>1, <1>2, <2>1, ClippedFacts DEF InWindow
<1>3. \A t \in U : (\E i \in D : Active(s[i], now, t)) <=> \E i \in 1..Len(s) : Active(s[i], now, t)
  BY <1>1, <1>2
<1>4. ASSUME NEW x
      PROVE  x \in Work(s, D, from, to, now) <=> x \in Work(s, 1..Len(s), from, to, now)
  BY <1>1, <1>2 DEF Work
<1>5. ASSUME NEW x
      PROVE  x \in ProjectWork(s, D, from, to, now) <=> x \in ProjectWork(s, 1..Len(s), from, to, now)
  <2>1. ASSUME x[2] \in U
        PROVE  (\E i \in D : s[i].project = x[1] /\ Active(s[i], now, x[2])) <=>
               \E i \in 1..Len(s) : s[i].project = x[1] /\ Active(s[i], now, x[2])
    BY <1>1, <1>2, <2>1
  <2> QED
    BY <1>1, <2>1 DEF ProjectWork
<1>6. ASSUME NEW p, NEW t \in U
      PROVE  (\E i \in ownPlaces(s, D, p) : Active(s[i], now, t)) <=>
             \E i \in ownPlaces(s, 1..Len(s), p) : Active(s[i], now, t)
  BY <1>1, <1>2 DEF ownPlaces
<1>7. BusyUnits(s, D, from, to, now) = BusyUnits(s, 1..Len(s), from, to, now)
  BY <1>3 DEF BusyUnits
<1>8. ASSUME NEW p
      PROVE  BusyUnits(s, ownPlaces(s, D, p), from, to, now) =
             BusyUnits(s, ownPlaces(s, 1..Len(s), p), from, to, now)
  BY <1>6 DEF BusyUnits
<1> QED
  BY <1>4, <1>5, <1>7, <1>8

-----------------------------------------------------------------------------
\* The summary of a request.

TypeOK == runs \in Seq(Run) /\ window \in Window

LEMMA Typed == Spec => []TypeOK
<1>1. Init => TypeOK
  BY DEF Init, TypeOK
<1>2. TypeOK /\ [Next]_vars => TypeOK'
  BY DEF Next, AddRun, vars, TypeOK
<1> QED
  BY <1>1, <1>2, PTL DEF Spec

LEMMA Requested ==
    ASSUME TypeOK
    PROVE  /\ runs \in Seq(Run) /\ DOMAIN runs = 1..Len(runs)
           /\ window.from \in Int /\ window.to \in Int /\ window.now \in Int
           /\ window.from < window.to /\ window.from >= 0
BY TimeAccountingAssumption DEF TypeOK, Window, Instants

(***************************************************************************)
(* Wall-clock time counts overlapping runs once, for any number of runs    *)
(* and any window.                                                         *)
(***************************************************************************)
THEOREM OverlapCountsOnce == Spec => []WallClockCountsOverlapOnce
<1>1. TypeOK => WallClockCountsOverlapOnce
  <2> SUFFICES ASSUME TypeOK PROVE WallClockCountsOverlapOnce
    OBVIOUS
  <2> DEFINE from == window.from
             to == window.to
             now == window.now
             D == InWindow(runs, from, to, now)
             sum == summary(runs, from, to, now)
  <2>1. /\ runs \in Seq(Run) /\ DOMAIN runs = 1..Len(runs)
        /\ from \in Int /\ to \in Int /\ now \in Int
    BY Requested
  <2>2. /\ sum.wallClock = Cardinality(BusyUnits(runs, D, from, to, now))
        /\ \A p \in DOMAIN sum.projectSpan :
              sum.projectSpan[p] =
                  Cardinality(BusyUnits(runs, ownPlaces(runs, D, p), from, to, now))
    BY <2>1, SummaryMeasures
  <2>3. /\ BusyUnits(runs, D, from, to, now) = BusyUnits(runs, 1..Len(runs), from, to, now)
        /\ \A p : BusyUnits(runs, ownPlaces(runs, D, p), from, to, now) =
                  BusyUnits(runs, ownPlaces(runs, 1..Len(runs), p), from, to, now)
    BY <2>1, WholeTable
  <2>4. BusyUnits(runs, 1..Len(runs), from, to, now) = {t \in Units : ActiveAt(t) # {}}
    BY <2>1 DEF BusyUnits, UnitsIn, Units, ActiveAt, During, Active
  <2>5. ASSUME NEW p
        PROVE  BusyUnits(runs, ownPlaces(runs, 1..Len(runs), p), from, to, now) =
               {t \in Units : \E i \in ActiveAt(t) : runs[i].project = p}
    BY <2>1 DEF BusyUnits, UnitsIn, Units, ActiveAt, During, Active, ownPlaces
  <2>6. Sum = sum
    BY DEF Sum
  <2> HIDE DEF sum
  <2> QED
    BY <2>2, <2>3, <2>4, <2>5, <2>6 DEF WallClockCountsOverlapOnce
<1> QED
  BY <1>1, Typed, PTL

LEMMA TimesOfTable ==
    ASSUME NEW s \in Seq(Run), NEW from \in Int, NEW to \in Int, NEW now \in Int
    PROVE  LET sum == summary(s, from, to, now)
           IN  /\ sum.wallClock = Cardinality(BusyUnits(s, 1..Len(s), from, to, now))
               /\ sum.sessionAgentTime = Cardinality(Work(s, 1..Len(s), from, to, now))
               /\ sum.agentTime = Cardinality(ProjectWork(s, 1..Len(s), from, to, now))
<1> DEFINE D == InWindow(s, from, to, now)
           sum == summary(s, from, to, now)
<1>1. D = InWindow(s, from, to, now)
  OBVIOUS
<1> HIDE DEF D, sum
<1>2. /\ sum.wallClock = Cardinality(BusyUnits(s, D, from, to, now))
      /\ sum.sessionAgentTime = Cardinality(Work(s, D, from, to, now))
      /\ sum.agentTime = Cardinality(ProjectWork(s, D, from, to, now))
  BY <1>1, SummaryMeasures DEF sum
<1> QED
  BY <1>1, <1>2, WholeTable DEF sum

LEMMA FiniteMeasures ==
    ASSUME NEW s \in Seq(Run), NEW from \in Int, NEW to \in Int, NEW now \in Int
    PROVE  /\ IsFiniteSet(BusyUnits(s, 1..Len(s), from, to, now))
           /\ IsFiniteSet(Work(s, 1..Len(s), from, to, now))
           /\ IsFiniteSet(ProjectWork(s, 1..Len(s), from, to, now))
<1> DEFINE D == 1..Len(s)
           U == UnitsIn(from, to)
           P == {s[i].project : i \in D}
           h == [i \in D |-> s[i].project]
<1>1. IsFiniteSet(D) /\ IsFiniteSet(U)
  <2>1. Len(s) \in Nat /\ 1 \in Int
    OBVIOUS
  <2> QED
    BY <2>1, FS_Interval, FiniteUnits
<1>2. h \in Surjection(D, P)
  BY DEF Surjection
<1>3. /\ BusyUnits(s, D, from, to, now) \in SUBSET U
      /\ Work(s, D, from, to, now) \in SUBSET (D \X U)
      /\ ProjectWork(s, D, from, to, now) \in SUBSET (P \X U)
  BY DEF BusyUnits, Work, ProjectWork
<1> HIDE DEF D, U, P, h
<1>4. IsFiniteSet(P)
  BY <1>1, <1>2, FS_Surjection
<1>5. IsFiniteSet(D \X U) /\ IsFiniteSet(P \X U)
  BY <1>1, <1>4, FS_Product
<1> QED
  BY <1>1, <1>3, <1>5, FS_Subset DEF D

(***************************************************************************)
(* The times of a window are those of its parts, wherever it is cut.       *)
(***************************************************************************)
THEOREM PartsAddUp == Spec => []WindowsAddUp
<1>1. TypeOK => WindowsAddUp
  <2> SUFFICES ASSUME TypeOK,
                      NEW mid \in (window.from + 1)..(window.to - 1)
               PROVE  LET sum == Sum
                          l == summary(runs, window.from, mid, window.now)
                          r == summary(runs, mid, window.to, window.now)
                      IN  /\ sum.wallClock = l.wallClock + r.wallClock
                          /\ sum.agentTime = l.agentTime + r.agentTime
                          /\ sum.sessionAgentTime = l.sessionAgentTime + r.sessionAgentTime
    BY DEF WindowsAddUp
  <2> DEFINE from == window.from
             to == window.to
             now == window.now
             D == 1..Len(runs)
             sum == summary(runs, from, to, now)
             l == summary(runs, from, mid, now)
             r == summary(runs, mid, to, now)
  <2>1. /\ runs \in Seq(Run) /\ from \in Int /\ to \in Int /\ now \in Int
        /\ mid \in Int /\ from < mid /\ mid < to
    BY Requested
  <2> HIDE DEF from, to, now, D, sum, l, r
  <2>2. /\ \A t : t \in UnitsIn(from, to) <=> t \in UnitsIn(from, mid) \/ t \in UnitsIn(mid, to)
        /\ \A t : ~(t \in UnitsIn(from, mid) /\ t \in UnitsIn(mid, to))
    BY <2>1 DEF UnitsIn
  <2>3. /\ BusyUnits(runs, D, from, to, now) =
               BusyUnits(runs, D, from, mid, now) \cup BusyUnits(runs, D, mid, to, now)
        /\ BusyUnits(runs, D, from, mid, now) \cap BusyUnits(runs, D, mid, to, now) = {}
    BY <2>2 DEF BusyUnits
  <2>4. /\ Work(runs, D, from, to, now) =
               Work(runs, D, from, mid, now) \cup Work(runs, D, mid, to, now)
        /\ Work(runs, D, from, mid, now) \cap Work(runs, D, mid, to, now) = {}
    BY <2>2 DEF Work
  <2>5. /\ ProjectWork(runs, D, from, to, now) =
               ProjectWork(runs, D, from, mid, now) \cup ProjectWork(runs, D, mid, to, now)
        /\ ProjectWork(runs, D, from, mid, now) \cap ProjectWork(runs, D, mid, to, now) = {}
    BY <2>2 DEF ProjectWork
  <2>6. /\ sum.wallClock = Cardinality(BusyUnits(runs, D, from, to, now))
        /\ sum.sessionAgentTime = Cardinality(Work(runs, D, from, to, now))
        /\ sum.agentTime = Cardinality(ProjectWork(runs, D, from, to, now))
    BY <2>1, TimesOfTable DEF D, sum
  <2>7. /\ l.wallClock = Cardinality(BusyUnits(runs, D, from, mid, now))
        /\ l.sessionAgentTime = Cardinality(Work(runs, D, from, mid, now))
        /\ l.agentTime = Cardinality(ProjectWork(runs, D, from, mid, now))
    BY <2>1, TimesOfTable DEF D, l
  <2>8. /\ r.wallClock = Cardinality(BusyUnits(runs, D, mid, to, now))
        /\ r.sessionAgentTime = Cardinality(Work(runs, D, mid, to, now))
        /\ r.agentTime = Cardinality(ProjectWork(runs, D, mid, to, now))
    BY <2>1, TimesOfTable DEF D, r
  <2>9. /\ IsFiniteSet(BusyUnits(runs, D, from, mid, now))
        /\ IsFiniteSet(BusyUnits(runs, D, mid, to, now))
        /\ IsFiniteSet(Work(runs, D, from, mid, now)) /\ IsFiniteSet(Work(runs, D, mid, to, now))
        /\ IsFiniteSet(ProjectWork(runs, D, from, mid, now))
        /\ IsFiniteSet(ProjectWork(runs, D, mid, to, now))
    BY <2>1, FiniteMeasures DEF D
  <2>10. sum.wallClock = l.wallClock + r.wallClock
    <3>1. Cardinality(BusyUnits(runs, D, from, to, now)) =
              Cardinality(BusyUnits(runs, D, from, mid, now)) + Cardinality(BusyUnits(runs, D, mid, to, now))
      BY <2>3, <2>9, DisjointSizes
    <3> QED
      BY <2>6, <2>7, <2>8, <3>1
  <2>11. sum.sessionAgentTime = l.sessionAgentTime + r.sessionAgentTime
    <3>1. Cardinality(Work(runs, D, from, to, now)) =
              Cardinality(Work(runs, D, from, mid, now)) + Cardinality(Work(runs, D, mid, to, now))
      BY <2>4, <2>9, DisjointSizes
    <3> QED
      BY <2>6, <2>7, <2>8, <3>1
  <2>12. sum.agentTime = l.agentTime + r.agentTime
    <3>1. Cardinality(ProjectWork(runs, D, from, to, now)) =
              Cardinality(ProjectWork(runs, D, from, mid, now)) + Cardinality(ProjectWork(runs, D, mid, to, now))
      BY <2>5, <2>9, DisjointSizes
    <3> QED
      BY <2>6, <2>7, <2>8, <3>1
  <2> QED
    BY <2>10, <2>11, <2>12 DEF Sum, sum, l, r, from, to, now
<1> QED
  BY <1>1, Typed, PTL

-----------------------------------------------------------------------------
\* The dashboard.

\* The runs of a list that the bar of a project shows.
barRuns(v, p, from, to) ==
    kept(v, {i \in DOMAIN v : v[i].project = p /\ proper(webInterval(v[i], from, to))})

\* A closed run is cut to the window alike.
LEMMA WebClips ==
    ASSUME NEW r \in Run, r.ended # NoTime, NEW from \in Int, NEW to \in Int, NEW now \in Int
    PROVE  webInterval(r, from, to) = clipped(r, from, to, now)
<1>1. r.started \in Int /\ r.ended \in Int
  BY TimeAccountingAssumption DEF Run, Instants, NoTime
<1>2. /\ later(from, r.started) = later(r.started, from)
      /\ earlier(to, r.ended) = earlier(r.ended, to)
  BY <1>1 DEF later, earlier
<1> QED
  BY <1>2 DEF webInterval, clipped, Clip, runEnd

LEMMA BarPicks ==
    ASSUME NEW s \in Seq(Run), NEW from \in Int, NEW to \in Int, NEW now \in Int,
           \A i \in 1..Len(s) : s[i].ended # NoTime, NEW p,
           NEW D, D = InWindow(s, from, to, now)
    PROVE  \E f : Picks(barRuns(selected(s, from, to, now), p, from, to), s, f,
                        ownPlaces(s, D, p))
<1> DEFINE S == {i \in DOMAIN s : s[i].started < to /\ runEnd(s[i], now) > from}
           E == ownPlaces(s, D, p)
           v == selected(s, from, to, now)
           K == {i \in DOMAIN v : v[i].project = p /\ proper(webInterval(v[i], from, to))}
<1>1. Len(s) \in Nat /\ S \in SUBSET (1..Len(s)) /\ v = kept(s, S)
  BY DEF selected
<1>2. \A i \in 1..Len(s) : /\ i \in DOMAIN s /\ s[i] \in Run
                           /\ webInterval(s[i], from, to) = clipped(s[i], from, to, now)
  <2>1. \A i \in 1..Len(s) : i \in DOMAIN s /\ s[i] \in Run
    OBVIOUS
  <2> QED
    BY <2>1, WebClips
<1>3. E \in SUBSET S
  BY <1>2, ClippedFacts DEF InWindow, ownPlaces
<1>4. \A i \in S : i \in E <=> s[i].project = p /\ proper(webInterval(s[i], from, to))
  BY <1>1, <1>2 DEF InWindow, ownPlaces
<1>5. barRuns(v, p, from, to) = kept(v, K)
  BY DEF barRuns
<1> HIDE DEF S, E, v
<1>6. IsFiniteSet(S)
  BY <1>1, FinitePlaces
<1>7. PICK f : Picks(v, s, f, S)
  BY <1>1, KeptPicks
<1>8. /\ DOMAIN v = 1..Cardinality(S)
      /\ \A k \in 1..Cardinality(S) : f[k] \in S /\ v[k] = s[f[k]]
  BY <1>6, <1>7, PicksFacts
<1>9. K \in SUBSET (1..Cardinality(S)) /\ \A k \in 1..Cardinality(S) : k \in K <=> f[k] \in E
  BY <1>4, <1>8
<1> HIDE DEF K
<1>10. \E g : Picks(kept(v, K), s, g, E)
  BY <1>3, <1>6, <1>7, <1>9, KeptTwice
<1> QED
  BY <1>5, <1>10 DEF v, E

LEMMA BarMeasures ==
    ASSUME NEW s \in Seq(Run), NEW from \in Int, NEW to \in Int, NEW now \in Int,
           \A i \in 1..Len(s) : s[i].ended # NoTime, NEW p,
           NEW D, D = InWindow(s, from, to, now)
    PROVE  groupTotal(selected(s, from, to, now), p, from, to) =
               Cardinality(BusyUnits(s, ownPlaces(s, D, p), from, to, now))
<1> DEFINE E == ownPlaces(s, D, p)
           v == barRuns(selected(s, from, to, now), p, from, to)
<1>1. PICK f : Picks(v, s, f, E)
  BY BarPicks
<1>2. groupTotal(selected(s, from, to, now), p, from, to) =
          Duration(mergeIntervals([i \in DOMAIN v |-> webInterval(v[i], from, to)]))
  BY DEF groupTotal, barRuns
<1>3. E \in SUBSET (1..Len(s)) /\ \A i \in E : proper(clipped(s[i], from, to, now))
  BY DEF InWindow, ownPlaces
<1> HIDE DEF v, E
<1>4. IsFiniteSet(E)
  <2>1. Len(s) \in Nat
    OBVIOUS
  <2> QED
    BY <1>3, <2>1, FinitePlaces
<1>5. \A k \in DOMAIN v : webInterval(v[k], from, to) = clipped(v[k], from, to, now)
  <2>1. DOMAIN v = 1..Cardinality(E) /\ \A k \in 1..Cardinality(E) : f[k] \in E /\ v[k] = s[f[k]]
    BY <1>1, <1>4, PicksFacts
  <2>2. \A i \in E : s[i] \in Run /\ s[i].ended # NoTime
    BY <1>3
  <2> QED
    BY <2>1, <2>2, WebClips
<1>6. intervalsOf(v, from, to, now) = [i \in DOMAIN v |-> webInterval(v[i], from, to)]
  BY <1>5 DEF intervalsOf
<1>7. Duration(mergeIntervals(intervalsOf(v, from, to, now))) =
          Cardinality(BusyUnits(s, E, from, to, now))
  BY <1>1, <1>3, PickedDurations
<1> QED
  BY <1>2, <1>6, <1>7 DEF E

(***************************************************************************)
(* The dashboard's bars and the server's spans of closed runs are equal,   *)
(* although other code merges them.                                        *)
(***************************************************************************)
THEOREM BarsAreTheSpans == Spec => []DashboardAgrees
<1>1. TypeOK => DashboardAgrees
  <2> SUFFICES ASSUME TypeOK, \A i \in DOMAIN runs : runs[i].ended # NoTime,
                      NEW p \in DOMAIN Sum.projectSpan
               PROVE  Sum.projectSpan[p] =
                          groupTotal(selected(runs, window.from, window.to, window.now),
                                     p, window.from, window.to)
    BY DEF DashboardAgrees
  <2> DEFINE from == window.from
             to == window.to
             now == window.now
             D == InWindow(runs, from, to, now)
             sum == summary(runs, from, to, now)
  <2>1. /\ runs \in Seq(Run) /\ from \in Int /\ to \in Int /\ now \in Int
        /\ D = InWindow(runs, from, to, now)
        /\ \A i \in 1..Len(runs) : runs[i].ended # NoTime
    BY Requested
  <2>2. Sum = sum /\ p \in DOMAIN sum.projectSpan
    BY DEF Sum
  <2> HIDE DEF from, to, now, D
  <2>3. sum.projectSpan[p] = Cardinality(BusyUnits(runs, ownPlaces(runs, D, p), from, to, now))
    BY <2>1, <2>2, SummaryMeasures
  <2> HIDE DEF sum
  <2>4. groupTotal(selected(runs, from, to, now), p, from, to) =
            Cardinality(BusyUnits(runs, ownPlaces(runs, D, p), from, to, now))
    BY <2>1, BarMeasures
  <2> QED
    BY <2>2, <2>3, <2>4 DEF from, to, now
<1> QED
  BY <1>1, Typed, PTL

-----------------------------------------------------------------------------
\* The sweep over the start and end points.

Point == [at : Int, delta : {1, -1}]

Acc == [at : Int, active : Int, peak : Int, weighted : Int]

LEMMA SweepStepFacts ==
    ASSUME NEW acc \in Acc, NEW p \in Point
    PROVE  /\ sweepStep(acc, p) \in Acc
           /\ sweepStep(acc, p).at = p.at
           /\ sweepStep(acc, p).active = acc.active + p.delta
           /\ sweepStep(acc, p).peak = later(acc.peak, acc.active + p.delta)
           /\ sweepStep(acc, p).weighted = acc.weighted + acc.active * (p.at - acc.at)
<1>1. /\ acc.at \in Int /\ acc.active \in Int /\ acc.peak \in Int /\ acc.weighted \in Int
      /\ p.at \in Int /\ p.delta \in Int
  BY DEF Acc, Point
<1>2. /\ acc.active + p.delta \in Int
      /\ later(acc.peak, acc.active + p.delta) \in Int
  BY <1>1 DEF later
<1>3. acc.weighted + acc.active * (p.at - acc.at) \in Int
  <2>1. p.at - acc.at \in Int
    BY <1>1
  <2>2. acc.active * (p.at - acc.at) \in Int
    BY <1>1, <2>1
  <2> QED
    BY <1>1, <2>2
<1> QED
  BY <1>1, <1>2, <1>3 DEF sweepStep, Acc

SweepStart == [at |-> 0, active |-> 0, peak |-> 0, weighted |-> 0]

\* The accumulator after each point.
LEMMA SweepTurns ==
    ASSUME NEW n \in Nat, NEW pts \in [1..n -> Point]
    PROVE  \E f \in [0..n -> Acc] :
              /\ f[0] = SweepStart /\ \A k \in 1..n : f[k] = sweepStep(f[k - 1], pts[k])
              /\ loop(sweepStep, SweepStart, pts) = f[n]
<1>0. Len(pts) = n /\ SweepStart \in Acc
  BY IsList DEF SweepStart, Acc
<1>1. PICK g : \A k \in 1..n : \A a \in Acc :
                  g[<<k, a>>] = sweepStep(a, pts[k]) /\ g[<<k, a>>] \in Acc
  <2> DEFINE g == [x \in (1..n) \X Acc |-> sweepStep(x[2], pts[x[1]])]
  <2>1. ASSUME NEW k \in 1..n, NEW a \in Acc
        PROVE  g[<<k, a>>] = sweepStep(a, pts[k]) /\ g[<<k, a>>] \in Acc
    <3>1. sweepStep(a, pts[k]) \in Acc
      BY SweepStepFacts
    <3> QED
      BY <3>1
  <2> HIDE DEF g
  <2> QED
    BY <2>1
<1>2. PICK f \in [0..n -> Acc] : Values(f, g, n, SweepStart)
  <2>1. Closed(g, n, Acc)
    BY <1>1 DEF Closed
  <2> QED
    BY <1>0, <2>1, LoopExists
<1>3. \A k \in 1..n : f[k] = sweepStep(f[k - 1], pts[k])
  <2>1. \A k \in 1..n : k - 1 \in 0..n /\ f[k - 1] \in Acc
    OBVIOUS
  <2> QED
    BY <1>1, <1>2, <2>1 DEF Values
<1> DEFINE F == CHOOSE h : h = [k \in 0..Len(pts) |->
                    IF k = 0 THEN SweepStart ELSE sweepStep(h[k - 1], pts[k])]
<1>4. loop(sweepStep, SweepStart, pts) = F[Len(pts)]
  BY DEF loop
<1>5. F = [k \in 0..Len(pts) |-> IF k = 0 THEN SweepStart ELSE sweepStep(F[k - 1], pts[k])]
  <2>1. \A k \in 0..n : f[k] = IF k = 0 THEN SweepStart ELSE sweepStep(f[k - 1], pts[k])
    BY <1>2, <1>3 DEF Values
  <2>2. f = [k \in 0..Len(pts) |-> IF k = 0 THEN SweepStart ELSE sweepStep(f[k - 1], pts[k])]
    BY <1>0, <2>1
  <2> QED
    BY <2>2
<1> HIDE DEF F
<1>6. \A k \in 0..n : F[k] = f[k]
  <2> DEFINE T == {k \in 0..n : F[k] = f[k]}
  <2>1. 0 \in T
    BY <1>0, <1>2, <1>5 DEF Values
  <2>2. ASSUME NEW k \in 0..n, k < n, k \in T PROVE k + 1 \in T
    <3>1. k + 1 \in 1..n /\ (k + 1) - 1 = k /\ k + 1 \in 0..n
      BY <2>2
    <3>2. F[k + 1] = sweepStep(F[k], pts[k + 1]) /\ f[k + 1] = sweepStep(f[k], pts[k + 1])
      BY <1>0, <1>3, <1>5, <3>1
    <3> QED
      BY <2>2, <3>1, <3>2
  <2> HIDE DEF T
  <2>3. \A k \in 0..n : k \in T
    BY <2>1, <2>2, UpTo
  <2> QED
    BY <2>3 DEF T
<1>7. loop(sweepStep, SweepStart, pts) = f[n]
  BY <1>0, <1>4, <1>6
<1> QED
  BY <1>2, <1>3, <1>7 DEF Values

\* pts are the start and end points of l in order, ends first where they
\* coincide: the start of interval i at sp[i], its end at ep[i].
Points(l, n, pts, sp, ep) ==
    /\ pts \in [1..(2 * n) -> Point]
    /\ sp \in [1..n -> 1..(2 * n)] /\ ep \in [1..n -> 1..(2 * n)]
    /\ \A i \in 1..n : /\ pts[sp[i]].at = l[i].start /\ pts[sp[i]].delta = 1
                       /\ pts[ep[i]].at = l[i].end /\ pts[ep[i]].delta = -1
    /\ \A i, j \in 1..n : (sp[i] = sp[j] => i = j) /\ (ep[i] = ep[j] => i = j)
    /\ \A k \in 1..(2 * n) : \E i \in 1..n : k = sp[i] \/ k = ep[i]
    /\ \A j, k \in 1..(2 * n) : j < k =>
          \/ pts[j].at < pts[k].at
          \/ pts[j].at = pts[k].at /\ pts[j].delta <= pts[k].delta

LEMMA PointsInOrder ==
    ASSUME NEW n \in Nat, NEW l \in [1..n -> Iv]
    PROVE  \E sp, ep : Points(l, n, pointsOf(l), sp, ep)
<1> DEFINE N == 2 * n
           D == 1..N
           starts == [i \in DOMAIN l |-> [at |-> l[i].start, delta |-> 1]]
           ends == [i \in DOMAIN l |-> [at |-> l[i].end, delta |-> -1]]
           raw == starts \o ends
           ahead == [i \in D |-> {j \in D : pointLess(raw[j], raw[i])
                                            \/ (~pointLess(raw[i], raw[j]) /\ j < i)}]
<1>0. \A i \in 1..n : l[i].start \in Int /\ l[i].end \in Int
  BY DEF Iv
<1>1. starts \in [1..n -> Point] /\ ends \in [1..n -> Point]
  BY <1>0 DEF Point
<1>2. /\ \A i \in 1..n : starts[i].at = l[i].start /\ starts[i].delta = 1
      /\ \A i \in 1..n : ends[i].at = l[i].end /\ ends[i].delta = -1
  OBVIOUS
<1>3. pointsOf(l) = sorted(raw, pointLess)
  BY DEF pointsOf
<1> HIDE DEF starts, ends
<1>4. Len(starts) = n /\ Len(ends) = n /\ starts \in Seq(Point) /\ ends \in Seq(Point)
  BY <1>1, IsList
<1>5. /\ raw \in Seq(Point) /\ Len(raw) = n + n
      /\ \A i \in 1..n : raw[i] = starts[i]
      /\ \A i \in 1..n : raw[n + i] = ends[i]
  BY <1>4
<1> HIDE DEF raw
<1>6. /\ N \in Nat /\ N = n + n /\ \A i \in 1..n : i \in D /\ n + i \in D
      /\ \A j \in D : j \in 1..n \/ \E i \in 1..n : j = n + i
  <2>1. ASSUME NEW j \in D, ~(j \in 1..n) PROVE \E i \in 1..n : j = n + i
    <3>1. j - n \in 1..n /\ j = n + (j - n)
      BY <2>1
    <3> QED
      BY <3>1
  <2> QED
    BY <2>1
<1> HIDE DEF N
<1>7. DOMAIN raw = D /\ \A j \in D : raw[j] \in Point
  BY <1>5, <1>6
<1>8. \A j \in D : raw[j].at \in Int /\ raw[j].delta \in Int /\ j \in Int
  BY <1>6, <1>7 DEF Point
<1>9. IsFiniteSet(D) /\ Cardinality(D) = N
  <2>1. IsFiniteSet(D) /\ Cardinality(D) = IF 1 > N THEN 0 ELSE N - 1 + 1
    BY <1>6, FS_Interval
  <2> QED
    BY <1>6, <2>1
<1>10. sorted(raw, pointLess) = arranged(raw, ahead)
  BY <1>7 DEF sorted
<1>11. Orders(ahead, D)
  <2> HIDE DEF D
  <2>1. \A i, j \in D : j \in ahead[i] <=>
                             (pointLess(raw[j], raw[i]) \/ (~pointLess(raw[i], raw[j]) /\ j < i))
    OBVIOUS
  <2>2. ahead \in [D -> SUBSET D]
    OBVIOUS
  <2> HIDE DEF ahead
  <2>3. /\ \A i \in D : i \notin ahead[i]
        /\ \A i, j \in D : i \in ahead[j] \/ j \in ahead[i] \/ i = j
    BY <1>8, <2>1 DEF pointLess
  <2>4. \A i, j, k \in D : i \in ahead[j] /\ j \in ahead[k] => i \in ahead[k]
    BY <1>8, <2>1 DEF pointLess
  <2> QED
    BY <2>2, <2>3, <2>4 DEF Orders
<1>12. ASSUME NEW i \in D, NEW j \in ahead[i]
       PROVE  \/ raw[j].at < raw[i].at
              \/ raw[j].at = raw[i].at /\ raw[j].delta <= raw[i].delta
  BY <1>8 DEF pointLess
<1> HIDE DEF ahead
<1>13. PICK f : /\ Enumerates(f, D)
                /\ \A j, k \in 1..N : j < k => f[j] \in ahead[f[k]]
                /\ ReadAt(arranged(raw, ahead), raw, f, N)
  BY <1>9, <1>11, ArrangedInOrder
<1>14. /\ \A k \in D : f[k] \in D
       /\ \A i \in D : \E k \in D : f[k] = i
  BY <1>9, <1>13 DEF Enumerates
<1>15. PICK pts : pts = pointsOf(l)
  OBVIOUS
<1>16. pts = [k \in 1..N |-> raw[f[k]]]
  BY <1>3, <1>10, <1>13, <1>15 DEF ReadAt
<1>17. pts \in [1..N -> Point] /\ \A k \in D : pts[k] = raw[f[k]]
  BY <1>7, <1>14, <1>16
<1>18. ASSUME NEW j \in D, NEW k \in D, j < k
       PROVE  \/ pts[j].at < pts[k].at
              \/ pts[j].at = pts[k].at /\ pts[j].delta <= pts[k].delta
  <2>1. f[k] \in D /\ f[j] \in ahead[f[k]] /\ pts[j] = raw[f[j]] /\ pts[k] = raw[f[k]]
    BY <1>13, <1>14, <1>17, <1>18
  <2>2. \/ raw[f[j]].at < raw[f[k]].at
        \/ raw[f[j]].at = raw[f[k]].at /\ raw[f[j]].delta <= raw[f[k]].delta
    BY <1>12, <2>1
  <2> QED
    BY <2>1, <2>2
<1> DEFINE sp == [i \in 1..n |-> CHOOSE k \in D : f[k] = i]
           ep == [i \in 1..n |-> CHOOSE k \in D : f[k] = n + i]
<1>19. \A i \in 1..n : /\ sp[i] \in D /\ f[sp[i]] = i
                       /\ ep[i] \in D /\ f[ep[i]] = n + i
  BY <1>6, <1>14
<1>20. sp \in [1..n -> 1..N] /\ ep \in [1..n -> 1..N]
  BY <1>19
<1> HIDE DEF sp, ep
<1>21. ASSUME NEW i \in 1..n
       PROVE  /\ pts[sp[i]].at = l[i].start /\ pts[sp[i]].delta = 1
              /\ pts[ep[i]].at = l[i].end /\ pts[ep[i]].delta = -1
  <2>1. pts[sp[i]] = raw[i] /\ pts[ep[i]] = raw[n + i]
    BY <1>17, <1>19
  <2>2. pts[sp[i]] = starts[i] /\ pts[ep[i]] = ends[i]
    BY <1>5, <2>1
  <2> QED
    BY <1>2, <2>2
<1>22. ASSUME NEW i \in 1..n, NEW j \in 1..n
       PROVE  (sp[i] = sp[j] => i = j) /\ (ep[i] = ep[j] => i = j)
  <2>1. ep[i] = ep[j] => n + i = n + j
    BY <1>19
  <2> QED
    BY <1>19, <2>1
<1>23. ASSUME NEW k \in D PROVE \E i \in 1..n : k = sp[i] \/ k = ep[i]
  <2>1. \A a, b \in D : f[a] = f[b] => a = b
    BY <1>9, <1>13 DEF Enumerates
  <2>2. f[k] \in 1..n \/ \E i \in 1..n : f[k] = n + i
    BY <1>6, <1>14
  <2>3. CASE f[k] \in 1..n
    BY <1>19, <2>1, <2>3
  <2>4. CASE \E i \in 1..n : f[k] = n + i
    <3>1. PICK i \in 1..n : f[k] = n + i
      BY <2>4
    <3>2. ep[i] \in D /\ f[ep[i]] = f[k]
      BY <1>19, <3>1
    <3>3. k = ep[i]
      BY <2>1, <3>2
    <3> QED
      BY <3>3
  <2> QED
    BY <2>2, <2>3, <2>4
<1>24. Points(l, n, pts, sp, ep)
  BY <1>17, <1>18, <1>20, <1>21, <1>22, <1>23 DEF Points, N
<1> QED
  BY <1>15, <1>24

\* The intervals that have started and not ended by point k.
Open(n, sp, ep, k) == {i \in 1..n : sp[i] <= k /\ k < ep[i]}

AllProper(l, n) == \A i \in 1..n : proper(l[i])

LEMMA PointTypes ==
    ASSUME NEW n \in Nat, NEW l \in [1..n -> Iv], NEW pts, NEW sp, NEW ep,
           Points(l, n, pts, sp, ep)
    PROVE  /\ \A i \in 1..n : /\ sp[i] \in 1..(2 * n) /\ ep[i] \in 1..(2 * n)
                              /\ l[i].start \in Int /\ l[i].end \in Int
           /\ \A k \in 1..(2 * n) : pts[k] \in Point /\ pts[k].at \in Int
           /\ \A j, k \in 1..(2 * n) : j <= k => pts[j].at <= pts[k].at
<1>1. /\ \A i \in 1..n : sp[i] \in 1..(2 * n) /\ ep[i] \in 1..(2 * n)
      /\ \A k \in 1..(2 * n) : pts[k] \in Point
  BY DEF Points
<1>2. \A k \in 1..(2 * n) : pts[k].at \in Int /\ k \in Int
  BY <1>1 DEF Point
<1>3. \A i \in 1..n : l[i].start \in Int /\ l[i].end \in Int
  BY DEF Iv
<1>4. ASSUME NEW j \in 1..(2 * n), NEW k \in 1..(2 * n), j <= k PROVE pts[j].at <= pts[k].at
  <2>1. CASE j = k
    BY <1>2, <2>1
  <2>2. CASE j < k
    <3>1. pts[j].at < pts[k].at \/ pts[j].at = pts[k].at
      BY <2>2 DEF Points
    <3>2. pts[j].at \in Int /\ pts[k].at \in Int
      BY <1>2
    <3> QED
      BY <3>1, <3>2
  <2> QED
    BY <1>2, <1>4, <2>1, <2>2
<1> QED
  BY <1>1, <1>2, <1>3, <1>4

\* Between two points, the open intervals are those that hold the instant.
LEMMA OpenHolds ==
    ASSUME NEW n \in Nat, NEW l \in [1..n -> Iv], NEW pts, NEW sp, NEW ep,
           Points(l, n, pts, sp, ep), NEW k \in 0..(2 * n), NEW t \in Int,
           k > 0 => pts[k].at <= t, k < 2 * n => t < pts[k + 1].at
    PROVE  Open(n, sp, ep, k) = {i \in 1..n : Within(l[i], t)}
<1>1. /\ \A i \in 1..n : /\ sp[i] \in 1..(2 * n) /\ ep[i] \in 1..(2 * n)
                         /\ l[i].start \in Int /\ l[i].end \in Int
      /\ \A j \in 1..(2 * n) : pts[j].at \in Int
      /\ \A i, j \in 1..(2 * n) : i <= j => pts[i].at <= pts[j].at
  BY PointTypes
<1>2. \A i \in 1..n : pts[sp[i]].at = l[i].start /\ pts[ep[i]].at = l[i].end
  BY DEF Points
<1>3. ASSUME NEW j \in 1..(2 * n) PROVE j <= k <=> pts[j].at <= t
  <2>1. CASE j <= k
    <3>1. k \in 1..(2 * n) /\ k > 0
      BY <2>1
    <3>2. pts[j].at <= pts[k].at /\ pts[k].at <= t /\ pts[j].at \in Int /\ pts[k].at \in Int
      BY <1>1, <2>1, <3>1
    <3> QED
      BY <2>1, <3>2
  <2>2. CASE ~(j <= k)
    <3>1. k + 1 \in 1..(2 * n) /\ k < 2 * n /\ k + 1 <= j
      BY <2>2
    <3>2. t < pts[k + 1].at /\ pts[k + 1].at <= pts[j].at /\ pts[j].at \in Int /\ pts[k + 1].at \in Int
      BY <1>1, <3>1
    <3> QED
      BY <2>2, <3>2
  <2> QED
    BY <2>1, <2>2
<1>4. ASSUME NEW i \in 1..n PROVE (sp[i] <= k /\ k < ep[i]) <=> Within(l[i], t)
  <2>1. /\ sp[i] <= k <=> l[i].start <= t
        /\ ep[i] <= k <=> l[i].end <= t
    BY <1>1, <1>2, <1>3
  <2>2. sp[i] \in Int /\ ep[i] \in Int /\ l[i].start \in Int /\ l[i].end \in Int /\ k \in Int
    BY <1>1
  <2> QED
    BY <2>1, <2>2 DEF Within
<1> QED
  BY <1>4 DEF Open

\* A point opens or closes one interval.
LEMMA OpenTurns ==
    ASSUME NEW n \in Nat, NEW l \in [1..n -> Iv], AllProper(l, n),
           NEW pts, NEW sp, NEW ep,
           Points(l, n, pts, sp, ep), NEW k \in 1..(2 * n)
    PROVE  /\ IsFiniteSet(Open(n, sp, ep, k)) /\ IsFiniteSet(Open(n, sp, ep, k - 1))
           /\ Cardinality(Open(n, sp, ep, k)) =
                  Cardinality(Open(n, sp, ep, k - 1)) + pts[k].delta
           /\ \/ pts[k].delta = -1
              \/ \E i \in 1..n : \A j \in Open(n, sp, ep, k) : Within(l[j], l[i].start)
<1>1. /\ \A i \in 1..n : /\ sp[i] \in 1..(2 * n) /\ ep[i] \in 1..(2 * n)
                         /\ l[i].start \in Int /\ l[i].end \in Int
      /\ \A j \in 1..(2 * n) : pts[j].at \in Int
      /\ \A i, j \in 1..(2 * n) : i <= j => pts[i].at <= pts[j].at
  BY PointTypes
<1>2. \A i \in 1..n : /\ pts[sp[i]].at = l[i].start /\ pts[ep[i]].at = l[i].end
                      /\ pts[sp[i]].delta = 1 /\ pts[ep[i]].delta = -1
  BY DEF Points
<1>3. \A i \in 1..n : sp[i] < ep[i] /\ sp[i] \in Int /\ ep[i] \in Int
  <2> SUFFICES ASSUME NEW i \in 1..n, ~(sp[i] < ep[i]) PROVE FALSE
    BY <1>1
  <2>1. l[i].start < l[i].end
    BY <1>1 DEF AllProper, proper
  <2>2. ep[i] <= sp[i]
    BY <1>1
  <2>3. l[i].end <= l[i].start
    BY <1>1, <1>2, <2>2
  <2> QED
    BY <1>1, <2>1, <2>3
<1>4. IsFiniteSet(Open(n, sp, ep, k)) /\ IsFiniteSet(Open(n, sp, ep, k - 1))
  <2>1. Open(n, sp, ep, k) \in SUBSET (1..n) /\ Open(n, sp, ep, k - 1) \in SUBSET (1..n)
    BY DEF Open
  <2> QED
    BY <2>1, FinitePlaces
<1>5. PICK i \in 1..n : k = sp[i] \/ k = ep[i]
  BY DEF Points
<1>6. \A j \in 1..n : (sp[i] = sp[j] => i = j) /\ (ep[i] = ep[j] => i = j)
  BY DEF Points
<1>7. \A j, m \in 1..n : sp[j] # ep[m]
  <2> SUFFICES ASSUME NEW j \in 1..n, NEW m \in 1..n, sp[j] = ep[m] PROVE FALSE
    OBVIOUS
  <2>1. pts[sp[j]].delta = 1 /\ pts[ep[m]].delta = -1
    BY <1>2
  <2> QED
    BY <2>1
<1>8. CASE k = sp[i]
  <2>1. /\ Open(n, sp, ep, k) = Open(n, sp, ep, k - 1) \cup {i}
        /\ i \notin Open(n, sp, ep, k - 1)
    <3>1. ASSUME NEW j \in 1..n
          PROVE  (sp[j] <= k /\ k < ep[j]) <=> ((sp[j] <= k - 1 /\ k - 1 < ep[j]) \/ j = i)
      <4>1. sp[j] \in Int /\ ep[j] \in Int /\ sp[j] < ep[j] /\ k \in Int /\ ep[j] # k
            /\ (j # i => sp[j] # k) /\ sp[i] = k /\ (j = i => sp[j] = k)
        BY <1>3, <1>6, <1>7, <1>8
      <4> QED
        BY <4>1
    <3>2. ~(sp[i] <= k - 1)
      BY <1>3, <1>8
    <3> QED
      BY <3>1, <3>2 DEF Open
  <2>2. Cardinality(Open(n, sp, ep, k)) = Cardinality(Open(n, sp, ep, k - 1)) + 1
    BY <1>4, <2>1, FS_AddElement
  <2>3. ASSUME NEW j \in Open(n, sp, ep, k) PROVE Within(l[j], l[i].start)
    <3>1. j \in 1..n /\ sp[j] <= k /\ k < ep[j] /\ ep[j] \in 1..(2 * n) /\ sp[j] \in 1..(2 * n)
      BY <1>1 DEF Open
    <3>2. l[j].start <= l[i].start
      BY <1>1, <1>2, <1>8, <3>1
    <3>3. \/ pts[k].at < pts[ep[j]].at
          \/ pts[k].at = pts[ep[j]].at /\ pts[k].delta <= pts[ep[j]].delta
      BY <3>1 DEF Points
    <3>4. pts[k].delta = 1 /\ pts[ep[j]].delta = -1
      BY <1>2, <1>8, <3>1
    <3>5. l[i].start < l[j].end
      BY <1>2, <1>8, <3>1, <3>3, <3>4
    <3> QED
      BY <3>2, <3>5 DEF Within
  <2>4. pts[k].delta = 1
    BY <1>2, <1>8
  <2> QED
    BY <1>4, <2>2, <2>3, <2>4
<1>9. CASE k = ep[i]
  <2>1. /\ Open(n, sp, ep, k) = Open(n, sp, ep, k - 1) \ {i}
        /\ i \in Open(n, sp, ep, k - 1)
    <3>1. ASSUME NEW j \in 1..n
          PROVE  (sp[j] <= k /\ k < ep[j]) <=> ((sp[j] <= k - 1 /\ k - 1 < ep[j]) /\ j # i)
      <4>1. sp[j] \in Int /\ ep[j] \in Int /\ sp[j] < ep[j] /\ k \in Int /\ sp[j] # k
            /\ (j # i => ep[j] # k) /\ ep[i] = k /\ (j = i => ep[j] = k)
        BY <1>3, <1>6, <1>7, <1>9
      <4> QED
        BY <4>1
    <3>2. sp[i] <= k - 1 /\ k - 1 < ep[i]
      BY <1>3, <1>9
    <3> QED
      BY <3>1, <3>2 DEF Open
  <2>2. Cardinality(Open(n, sp, ep, k)) = Cardinality(Open(n, sp, ep, k - 1)) - 1
    BY <1>4, <2>1, FS_RemoveElement
  <2>3. pts[k].delta = -1 /\ Cardinality(Open(n, sp, ep, k - 1)) \in Nat
    BY <1>2, <1>4, <1>9, FS_CardinalityType
  <2> QED
    BY <1>4, <2>2, <2>3
<1> QED
  BY <1>5, <1>8, <1>9

\* The pairs of an interval and a unit in it before the instant a.
Swept(l, n, U, a) == {x \in (1..n) \X U : Within(l[x[1]], x[2]) /\ x[2] < a}

LEMMA SweptGrows ==
    ASSUME NEW n \in Nat, NEW l \in [1..n -> Iv], NEW pts, NEW sp, NEW ep,
           Points(l, n, pts, sp, ep), NEW U \in SUBSET Int, IsFiniteSet(U),
           \A t \in Int : Covers(l, t) => t \in U,
           NEW k \in 1..(2 * n), NEW a \in Int, a <= pts[k].at,
           k > 1 => pts[k - 1].at <= a
    PROVE  Cardinality(Swept(l, n, U, pts[k].at)) =
               Cardinality(Swept(l, n, U, a))
                   + Cardinality(Open(n, sp, ep, k - 1)) * (pts[k].at - a)
<1> DEFINE b == pts[k].at
           C == Open(n, sp, ep, k - 1)
           S == a..(b - 1)
<1>1. b \in Int /\ DOMAIN l = 1..n
  BY PointTypes
<1>2. k - 1 \in 0..(2 * n) /\ (k - 1) + 1 = k
  OBVIOUS
<1>3. ASSUME NEW t \in S PROVE C = {i \in 1..n : Within(l[i], t)}
  <2>1. t \in Int /\ a <= t /\ t < b
    BY <1>1
  <2> DEFINE j == k - 1
  <2>2. j > 0 => pts[j].at <= t
    <3> SUFFICES ASSUME j > 0 PROVE pts[j].at <= t
      OBVIOUS
    <3>1. j \in 1..(2 * n) /\ k > 1
      OBVIOUS
    <3>2. pts[j].at \in Int /\ pts[j].at <= a
      BY <3>1, PointTypes
    <3> QED
      BY <2>1, <3>2
  <2>3. j < 2 * n => t < pts[j + 1].at
    BY <1>2, <2>1
  <2>4. j \in 0..(2 * n) /\ C = Open(n, sp, ep, j)
    BY <1>2
  <2> HIDE DEF j, C
  <2> QED
    BY <2>1, <2>2, <2>3, <2>4, OpenHolds
<1>4. C \in SUBSET (1..n) /\ IsFiniteSet(C)
  <2>1. C \in SUBSET (1..n)
    BY DEF Open
  <2> QED
    BY <2>1, FinitePlaces
<1>5. IsFiniteSet(S) /\ Cardinality(S) = b - a
  <2>1. b - 1 \in Int
    BY <1>1
  <2>2. IsFiniteSet(S) /\ Cardinality(S) = IF a > b - 1 THEN 0 ELSE (b - 1) - a + 1
    BY <2>1, FS_Interval
  <2> QED
    BY <1>1, <2>2
<1>6. a <= b
  OBVIOUS
<1> HIDE DEF b, C
<1>7. Swept(l, n, U, b) = Swept(l, n, U, a) \cup (C \X S)
  <2>1. ASSUME NEW x \in Swept(l, n, U, b), x \notin Swept(l, n, U, a) PROVE x \in C \X S
    <3>1. /\ x = <<x[1], x[2]>> /\ x[1] \in 1..n /\ x[2] \in U /\ x[2] \in Int
          /\ Within(l[x[1]], x[2]) /\ x[2] < b /\ ~(x[2] < a)
      BY <2>1 DEF Swept
    <3>2. x[2] \in S
      BY <1>1, <3>1
    <3>3. x[1] \in C
      BY <1>3, <3>1, <3>2
    <3> QED
      BY <3>1, <3>2, <3>3
  <2>2. ASSUME NEW x \in C \X S PROVE x \in Swept(l, n, U, b)
    <3>1. x = <<x[1], x[2]>> /\ x[1] \in C /\ x[2] \in S
      OBVIOUS
    <3>2. x[1] \in 1..n /\ Within(l[x[1]], x[2]) /\ x[2] \in Int /\ x[2] < b
      BY <1>1, <1>3, <1>4, <3>1
    <3>3. x[2] \in U
      BY <1>1, <3>2 DEF Covers
    <3> QED
      BY <3>1, <3>2, <3>3 DEF Swept
  <2>3. ASSUME NEW x \in Swept(l, n, U, a) PROVE x \in Swept(l, n, U, b)
    <3>1. x \in (1..n) \X U /\ Within(l[x[1]], x[2]) /\ x[2] < a /\ x[2] \in Int
      BY <2>3 DEF Swept
    <3>2. x[2] < b
      BY <1>1, <1>6, <3>1
    <3> QED
      BY <3>1, <3>2 DEF Swept
  <2> QED
    BY <2>1, <2>2, <2>3
<1>8. Swept(l, n, U, a) \cap (C \X S) = {}
  <2> SUFFICES ASSUME NEW x \in Swept(l, n, U, a), x \in C \X S PROVE FALSE
    OBVIOUS
  <2>1. x[2] < a /\ x[2] \in S
    BY DEF Swept
  <2> QED
    BY <1>1, <2>1
<1>9. IsFiniteSet(Swept(l, n, U, a))
  <2>1. IsFiniteSet(1..n)
    BY FS_Interval
  <2>2. IsFiniteSet((1..n) \X U)
    BY <2>1, FS_Product
  <2>3. Swept(l, n, U, a) \in SUBSET ((1..n) \X U)
    BY DEF Swept
  <2> QED
    BY <2>2, <2>3, FS_Subset
<1> HIDE DEF S
<1>10. IsFiniteSet(C \X S) /\ Cardinality(C \X S) = Cardinality(C) * Cardinality(S)
  BY <1>4, <1>5, FS_Product
<1>11. Cardinality(Swept(l, n, U, b)) = Cardinality(Swept(l, n, U, a)) + Cardinality(C \X S)
  BY <1>7, <1>8, <1>9, <1>10, DisjointSizes
<1>12. Cardinality(Swept(l, n, U, b)) = Cardinality(Swept(l, n, U, a)) + Cardinality(C) * (b - a)
  BY <1>5, <1>10, <1>11
<1> QED
  BY <1>12 DEF b, C

Crowd(l, n, t) == {i \in 1..n : Within(l[i], t)}

\* What the sweep knows after k points: the intervals that are open, the units
\* up to the point, and a peak that is reached.
SweepKnows(l, n, U, pts, sp, ep, acc, k) ==
    /\ acc.at = IF k = 0 THEN 0 ELSE pts[k].at
    /\ acc.active = Cardinality(Open(n, sp, ep, k))
    /\ acc.weighted = Cardinality(Swept(l, n, U, acc.at))
    /\ \A j \in 0..k : Cardinality(Open(n, sp, ep, j)) <= acc.peak
    /\ acc.peak = 0 \/ \E t \in U : acc.peak <= Cardinality(Crowd(l, n, t))

LEMMA SweepTurn ==
    ASSUME NEW n \in Nat, NEW l \in [1..n -> Iv], AllProper(l, n),
           NEW pts, NEW sp, NEW ep, Points(l, n, pts, sp, ep),
           NEW U \in SUBSET Nat, IsFiniteSet(U), \A t \in Int : Covers(l, t) => t \in U,
           NEW k \in 1..(2 * n), NEW acc \in Acc, NEW next, next = sweepStep(acc, pts[k]),
           SweepKnows(l, n, U, pts, sp, ep, acc, k - 1)
    PROVE  SweepKnows(l, n, U, pts, sp, ep, next, k)
<1>1. /\ \A i \in 1..n : /\ sp[i] \in 1..(2 * n) /\ ep[i] \in 1..(2 * n)
                         /\ l[i].start \in Int /\ l[i].end \in Int
      /\ \A j \in 1..(2 * n) : pts[j] \in Point /\ pts[j].at \in Int
      /\ \A i, j \in 1..(2 * n) : i <= j => pts[i].at <= pts[j].at
  BY PointTypes
<1>2. /\ next \in Acc /\ next.at = pts[k].at
      /\ next.active = acc.active + pts[k].delta
      /\ next.peak = later(acc.peak, acc.active + pts[k].delta)
      /\ next.weighted = acc.weighted + acc.active * (pts[k].at - acc.at)
  <2>1. pts[k] \in Point
    BY <1>1
  <2> QED
    BY <2>1, SweepStepFacts
<1>3. /\ acc.at \in Int /\ acc.active \in Int /\ acc.peak \in Int /\ acc.weighted \in Int
      /\ k - 1 \in 0..(2 * n) /\ k \in Int
      /\ next.peak \in Int /\ next.active \in Int
  BY <1>2 DEF Acc
<1>4. /\ acc.at = IF k - 1 = 0 THEN 0 ELSE pts[k - 1].at
      /\ acc.active = Cardinality(Open(n, sp, ep, k - 1))
      /\ acc.weighted = Cardinality(Swept(l, n, U, acc.at))
      /\ \A j \in 0..(k - 1) : Cardinality(Open(n, sp, ep, j)) <= acc.peak
      /\ acc.peak = 0 \/ \E t \in U : acc.peak <= Cardinality(Crowd(l, n, t))
  BY DEF SweepKnows
<1>5. \A i \in 1..n : l[i].start \in U /\ l[i].end > l[i].start
  <2> SUFFICES ASSUME NEW i \in 1..n PROVE l[i].start \in U /\ l[i].end > l[i].start
    OBVIOUS
  <2>1. Within(l[i], l[i].start) /\ l[i].end > l[i].start
    BY <1>1 DEF Within, AllProper, proper
  <2>2. Covers(l, l[i].start)
    BY <2>1 DEF Covers
  <2> QED
    BY <1>1, <2>1, <2>2
<1>6. \A j \in 1..(2 * n) : pts[j].at >= 0
  <2> SUFFICES ASSUME NEW j \in 1..(2 * n) PROVE pts[j].at >= 0
    OBVIOUS
  <2>1. PICK i \in 1..n : j = sp[i] \/ j = ep[i]
    BY DEF Points
  <2>2. pts[sp[i]].at = l[i].start /\ pts[ep[i]].at = l[i].end
    BY DEF Points
  <2>3. l[i].start \in Nat /\ l[i].end \in Int /\ l[i].end > l[i].start
    BY <1>1, <1>5
  <2> QED
    BY <2>1, <2>2, <2>3
<1>7. acc.at <= pts[k].at /\ (k > 1 => pts[k - 1].at <= acc.at)
  <2>1. CASE k = 1
    BY <1>4, <1>6, <2>1
  <2>2. CASE k > 1
    <3>1. k - 1 \in 1..(2 * n) /\ k - 1 <= k
      BY <2>2
    <3>2. acc.at = pts[k - 1].at
      BY <1>3, <1>4, <2>2
    <3>3. pts[k - 1].at <= pts[k].at /\ pts[k - 1].at \in Int
      BY <1>1, <3>1
    <3> QED
      BY <3>2, <3>3
  <2> QED
    BY <1>3, <2>1, <2>2
<1>8. next.weighted = Cardinality(Swept(l, n, U, next.at))
  <2>1. U \in SUBSET Int
    OBVIOUS
  <2>2. Cardinality(Swept(l, n, U, pts[k].at)) =
            Cardinality(Swept(l, n, U, acc.at))
                + Cardinality(Open(n, sp, ep, k - 1)) * (pts[k].at - acc.at)
    BY <1>3, <1>7, <2>1, SweptGrows
  <2> QED
    BY <1>2, <1>4, <2>2
<1>9. /\ Cardinality(Open(n, sp, ep, k)) = Cardinality(Open(n, sp, ep, k - 1)) + pts[k].delta
      /\ \/ pts[k].delta = -1
         \/ \E i \in 1..n : \A j \in Open(n, sp, ep, k) : Within(l[j], l[i].start)
  <2>1. Cardinality(Open(n, sp, ep, k)) = Cardinality(Open(n, sp, ep, k - 1)) + pts[k].delta
    BY OpenTurns
  <2>2. \/ pts[k].delta = -1
        \/ \E i \in 1..n : \A j \in Open(n, sp, ep, k) : Within(l[j], l[i].start)
    BY OpenTurns
  <2> QED
    BY <2>1, <2>2
<1>10. next.active = Cardinality(Open(n, sp, ep, k))
  BY <1>2, <1>4, <1>9
<1>11. \A j \in 0..k : Cardinality(Open(n, sp, ep, j)) <= next.peak
  <2>1. next.peak >= acc.peak /\ next.peak >= next.active
    BY <1>2, <1>3 DEF later
  <2> SUFFICES ASSUME NEW j \in 0..k PROVE Cardinality(Open(n, sp, ep, j)) <= next.peak
    OBVIOUS
  <2>2. Cardinality(Open(n, sp, ep, j)) \in Nat
    <3>1. Open(n, sp, ep, j) \in SUBSET (1..n)
      BY DEF Open
    <3> QED
      BY <3>1, FinitePlaces, FS_CardinalityType
  <2>3. CASE j = k
    BY <1>10, <2>1, <2>3
  <2>4. CASE j # k
    <3>1. Cardinality(Open(n, sp, ep, j)) <= acc.peak
      BY <1>4, <2>4
    <3> QED
      BY <1>3, <2>1, <2>2, <3>1
  <2> QED
    BY <2>3, <2>4
<1>12. next.peak = 0 \/ \E t \in U : next.peak <= Cardinality(Crowd(l, n, t))
  <2>1. CASE next.peak = acc.peak
    BY <1>4, <2>1
  <2>2. CASE next.peak # acc.peak
    <3>1. next.peak = next.active /\ acc.peak < next.active
      BY <1>2, <1>3, <2>2 DEF later
    <3>2. acc.active <= acc.peak
      BY <1>3, <1>4
    <3>3. pts[k].delta # -1
      BY <1>2, <1>3, <3>1, <3>2
    <3>4. PICK i \in 1..n : \A j \in Open(n, sp, ep, k) : Within(l[j], l[i].start)
      BY <1>9, <3>3
    <3>5. Open(n, sp, ep, k) \subseteq Crowd(l, n, l[i].start) /\ Crowd(l, n, l[i].start) \in SUBSET (1..n)
      BY <3>4 DEF Open, Crowd
    <3>6. Cardinality(Open(n, sp, ep, k)) <= Cardinality(Crowd(l, n, l[i].start))
      BY <3>5, FinitePlaces, FS_Subset
    <3> QED
      BY <1>5, <1>10, <3>1, <3>6
  <2> QED
    BY <2>1, <2>2
<1>13. next.at = IF k = 0 THEN 0 ELSE pts[k].at
  BY <1>2
<1> QED
  BY <1>8, <1>10, <1>11, <1>12, <1>13 DEF SweepKnows

LEMMA SweepMeasures ==
    ASSUME NEW n \in Nat, NEW l \in [1..n -> Iv], AllProper(l, n),
           NEW U \in SUBSET Nat, IsFiniteSet(U), \A t \in Int : Covers(l, t) => t \in U
    PROVE  /\ sweep(l).weighted = Cardinality(Area(l, n, U))
           /\ sweep(l).peak \in Int /\ sweep(l).peak >= 0
           /\ \A t \in U : Cardinality(Crowd(l, n, t)) <= sweep(l).peak
           /\ sweep(l).peak = 0 \/ \E t \in U : sweep(l).peak <= Cardinality(Crowd(l, n, t))
<1> DEFINE N == 2 * n
<1>0. N \in Nat
  OBVIOUS
<1>1. PICK pts, sp, ep : pts = pointsOf(l) /\ Points(l, n, pts, sp, ep)
  BY PointsInOrder
<1>2. pts \in [1..N -> Point]
  BY <1>1 DEF Points
<1>3. PICK f \in [0..N -> Acc] :
              /\ f[0] = SweepStart /\ \A k \in 1..N : f[k] = sweepStep(f[k - 1], pts[k])
              /\ loop(sweepStep, SweepStart, pts) = f[N]
  <2> HIDE DEF N
  <2> QED
    BY <1>0, <1>2, SweepTurns
<1>4. sweep(l) = f[N]
  BY <1>1, <1>3 DEF sweep, SweepStart
<1> DEFINE T == {k \in 0..N : SweepKnows(l, n, U, pts, sp, ep, f[k], k)}
<1>5. 0 \in T
  <2>1. Open(n, sp, ep, 0) = {}
    <3>1. \A i \in 1..n : sp[i] \in 1..(2 * n)
      BY <1>1, PointTypes
    <3> QED
      BY <3>1 DEF Open
  <2>2. Swept(l, n, U, 0) = {}
    <3> SUFFICES ASSUME NEW x \in Swept(l, n, U, 0) PROVE FALSE
      OBVIOUS
    <3>1. x[2] \in U /\ x[2] < 0
      BY DEF Swept
    <3>2. x[2] \in Nat
      BY <3>1
    <3> QED
      BY <3>1, <3>2
  <2>3. f[0].at = 0 /\ f[0].active = 0 /\ f[0].peak = 0 /\ f[0].weighted = 0
    BY <1>3 DEF SweepStart
  <2>4. \A j \in 0..0 : j = 0
    OBVIOUS
  <2>5. Cardinality({}) = 0
    BY FS_EmptySet
  <2>6. SweepKnows(l, n, U, pts, sp, ep, f[0], 0)
    <3> DEFINE a == f[0]
    <3>1. a.at = 0 /\ a.active = 0 /\ a.peak = 0 /\ a.weighted = 0
      BY <2>3
    <3> HIDE DEF a
    <3>2. Cardinality(Open(n, sp, ep, 0)) = 0 /\ Cardinality(Swept(l, n, U, a.at)) = 0
      BY <2>1, <2>2, <2>5, <3>1
    <3>3. \A j \in 0..0 : Cardinality(Open(n, sp, ep, j)) <= a.peak
      BY <2>4, <3>1, <3>2
    <3>4. SweepKnows(l, n, U, pts, sp, ep, a, 0)
      BY <3>1, <3>2, <3>3 DEF SweepKnows
    <3> QED
      BY <3>4 DEF a
  <2> QED
    BY <1>0, <2>6
<1>6. ASSUME NEW k \in 0..N, k < N, k \in T PROVE k + 1 \in T
  <2> DEFINE j == k + 1
             acc == f[k]
             next == f[k + 1]
  <2>1. j \in 1..(2 * n) /\ j - 1 = k /\ j \in 0..N
    BY <1>6
  <2>2. acc \in Acc /\ next = sweepStep(acc, pts[j])
    BY <1>3, <2>1
  <2>3. SweepKnows(l, n, U, pts, sp, ep, acc, j - 1)
    BY <1>6, <2>1
  <2> HIDE DEF j, acc, next
  <2>4. SweepKnows(l, n, U, pts, sp, ep, next, j)
    BY <1>1, <2>1, <2>2, <2>3, SweepTurn
  <2> QED
    BY <2>1, <2>4 DEF j, next
<1> HIDE DEF T
<1>7. N \in T
  <2>1. \A k \in 0..N : k \in T
    BY <1>0, <1>5, <1>6, UpTo
  <2> QED
    BY <1>0, <2>1
<1>8. SweepKnows(l, n, U, pts, sp, ep, f[N], N)
  BY <1>7 DEF T
<1>t. /\ \A i \in 1..n : /\ sp[i] \in 1..(2 * n) /\ ep[i] \in 1..(2 * n)
                         /\ l[i].start \in Int /\ l[i].end \in Int
      /\ \A j \in 1..(2 * n) : pts[j].at \in Int
      /\ \A i, j \in 1..(2 * n) : i <= j => pts[i].at <= pts[j].at
  BY <1>1, PointTypes
<1>9. f[N].weighted = Cardinality(Area(l, n, U))
  <2>1. ASSUME NEW i \in 1..n, NEW t \in U, Within(l[i], t) PROVE t < f[N].at
    <3>1. N \in 1..(2 * n) /\ N # 0 /\ ep[i] \in 1..(2 * n) /\ ep[i] <= N
      BY <1>t
    <3>2. f[N].at = pts[N].at
      BY <1>8, <3>1 DEF SweepKnows
    <3>3. pts[ep[i]].at <= pts[N].at /\ pts[ep[i]].at = l[i].end
      BY <1>1, <1>t, <3>1 DEF Points
    <3>4. l[i].end \in Int /\ pts[N].at \in Int
      BY <1>t, <3>1
    <3>5. t \in Nat /\ t < l[i].end
      BY <2>1 DEF Within
    <3> QED
      BY <3>2, <3>3, <3>4, <3>5
  <2>2. Swept(l, n, U, f[N].at) = Area(l, n, U)
    BY <2>1 DEF Swept, Area
  <2> QED
    BY <1>8, <2>2 DEF SweepKnows
<1>10. f[N].peak \in Int
  <2>1. f[N] \in Acc
    BY <1>0
  <2> QED
    BY <2>1 DEF Acc
<1>11. f[N].peak >= 0
  <2>1. Cardinality(Open(n, sp, ep, 0)) \in Nat
    <3>1. Open(n, sp, ep, 0) \in SUBSET (1..n)
      BY DEF Open
    <3> QED
      BY <3>1, FinitePlaces, FS_CardinalityType
  <2>2. Cardinality(Open(n, sp, ep, 0)) <= f[N].peak
    BY <1>0, <1>8 DEF SweepKnows
  <2> QED
    BY <1>10, <2>1, <2>2
<1>12. ASSUME NEW t \in U PROVE Cardinality(Crowd(l, n, t)) <= f[N].peak
  <2> DEFINE K == {k \in 0..N : k = 0 \/ pts[k].at <= t}
  <2>1. K \in SUBSET (0..N) /\ K # {}
    <3>1. 0 \in K
      BY <1>0
    <3>2. \A k \in K : k \in 0..N
      OBVIOUS
    <3> HIDE DEF K
    <3> QED
      BY <3>1, <3>2
  <2> HIDE DEF K
  <2>2. PICK k \in K : \A j \in K : j <= k
    BY <1>0, <2>1, GreatestNumber
  <2>3. k \in 0..(2 * n) /\ (k > 0 => pts[k].at <= t)
    BY <2>2 DEF K
  <2>4. k < 2 * n => t < pts[k + 1].at
    <3> SUFFICES ASSUME k < 2 * n PROVE t < pts[k + 1].at
      OBVIOUS
    <3>1. k + 1 \in 1..(2 * n) /\ k + 1 \in 0..N /\ ~(k + 1 <= k)
      BY <2>3
    <3>2. k + 1 \notin K
      BY <2>2, <3>1
    <3>3. ~(pts[k + 1].at <= t)
      BY <3>1, <3>2 DEF K
    <3>4. pts[k + 1].at \in Int /\ t \in Int
      BY <1>t, <3>1
    <3> QED
      BY <3>3, <3>4
  <2>5. t \in Int
    OBVIOUS
  <2>6. Open(n, sp, ep, k) = Crowd(l, n, t)
    <3> HIDE DEF N
    <3> QED
      BY <1>1, <2>3, <2>4, <2>5, OpenHolds DEF Crowd
  <2> QED
    BY <1>8, <2>3, <2>6 DEF SweepKnows
<1>13. f[N].peak = 0 \/ \E t \in U : f[N].peak <= Cardinality(Crowd(l, n, t))
  BY <1>8 DEF SweepKnows
<1> QED
  BY <1>4, <1>9, <1>10, <1>11, <1>12, <1>13

\* The runs of a table that are active in the unit t.
ActiveIn(s, now, t) == {i \in 1..Len(s) : Active(s[i], now, t)}

LEMMA SweepFields ==
    ASSUME NEW s, NEW from, NEW to, NEW now, NEW c, NEW l,
           c = counted(selected(s, from, to, now), from, to, now),
           l = intervalsOf(c, from, to, now)
    PROVE  /\ summary(s, from, to, now).peak = sweep(l).peak
           /\ summary(s, from, to, now).weighted = sweep(l).weighted
BY DEF summary, Summarize

LEMMA SweepOfTable ==
    ASSUME NEW s \in Seq(Run), NEW from \in Int, from >= 0, NEW to \in Int, NEW now \in Int
    PROVE  LET sum == summary(s, from, to, now)
               U == UnitsIn(from, to)
           IN  /\ sum.weighted = Cardinality(Work(s, 1..Len(s), from, to, now))
               /\ sum.peak \in Int /\ sum.peak >= 0
               /\ \A t \in U : /\ Cardinality(ActiveIn(s, now, t)) \in Nat
                               /\ Cardinality(ActiveIn(s, now, t)) <= sum.peak
               /\ sum.peak = 0 \/ \E t \in U : sum.peak <= Cardinality(ActiveIn(s, now, t))
<1> DEFINE D == InWindow(s, from, to, now)
           c == counted(selected(s, from, to, now), from, to, now)
           l == intervalsOf(c, from, to, now)
           n == Cardinality(D)
           U == UnitsIn(from, to)
           sum == summary(s, from, to, now)
<1>1. sum.peak = sweep(l).peak /\ sum.weighted = sweep(l).weighted
  BY SweepFields
<1>2. /\ D \in SUBSET (1..Len(s)) /\ \A i \in D : proper(clipped(s[i], from, to, now))
      /\ D = InWindow(s, from, to, now) /\ Len(s) \in Nat
  BY DEF InWindow
<1>3. PICK f : Picks(c, s, f, D)
  BY <1>2, CountedPicks
<1> HIDE DEF c, D
<1>4. /\ n \in Nat /\ l \in [1..n -> Iv]
      /\ \A k \in 1..n : f[k] \in D /\ f[k] \in 1..Len(s) /\ s[f[k]] \in Run
                         /\ l[k] = clipped(s[f[k]], from, to, now)
      /\ \A t \in Int : Covers(l, t) => t \in U
  <2>1. D \in SUBSET (1..Len(s))
    BY <1>2
  <2> HIDE DEF n, l, U
  <2> QED
    BY <1>3, <2>1, PickedIntervals DEF n, l, U
<1>5. IsFiniteSet(U) /\ U \in SUBSET Int /\ (\A t \in U : t \in Int) /\ U \in SUBSET Nat
  <2>1. U \in SUBSET Nat
    BY DEF UnitsIn
  <2> QED
    BY <1>2, <2>1, FiniteUnits
<1>6. AllProper(l, n)
  BY <1>2, <1>4 DEF AllProper
<1>7. IsFiniteSet(D) /\ Enumerates(f, D)
  BY <1>2, <1>3, FinitePlaces DEF Picks
<1>8. ASSUME NEW k \in 1..n, NEW t \in U PROVE Within(l[k], t) <=> Active(s[f[k]], now, t)
  BY <1>2, <1>4, <1>5, ClippedFacts
<1> HIDE DEF sum, l
<1>9. ASSUME NEW t \in U
      PROVE  /\ Cardinality(Crowd(l, n, t)) = Cardinality(ActiveIn(s, now, t))
             /\ Cardinality(ActiveIn(s, now, t)) \in Nat
  <2> DEFINE A == Crowd(l, n, t)
             B == ActiveIn(s, now, t)
  <2>1. \A k \in 1..n : k \in A <=> f[k] \in B
    BY <1>4, <1>8 DEF Crowd, ActiveIn
  <2>2. B \in SUBSET D
    <3> SUFFICES ASSUME NEW i \in 1..Len(s), Active(s[i], now, t) PROVE i \in D
      BY DEF ActiveIn
    <3>1. s[i] \in Run /\ t \in Int
      BY <1>5
    <3>2. proper(clipped(s[i], from, to, now))
      BY <1>2, <3>1, ClippedFacts
    <3> QED
      BY <1>2, <3>2 DEF InWindow
  <2>3. A \in SUBSET (1..Cardinality(D)) /\ \A k \in 1..Cardinality(D) : k \in A <=> f[k] \in B
    BY <2>1 DEF Crowd
  <2> HIDE DEF A, B
  <2>4. IsFiniteSet(B) /\ Cardinality(A) = Cardinality(B)
    BY <1>7, <2>2, <2>3, SizeThrough
  <2> QED
    BY <2>4, FS_CardinalityType DEF A, B
<1>10. Cardinality(Area(l, n, U)) = Cardinality(Work(s, D, from, to, now))
  <2> DEFINE A == Area(l, n, U)
             B == Work(s, D, from, to, now)
  <2>1. Matches(A, B, f, n, U)
    BY <1>4, <1>8 DEF Matches, Area, Work
  <2>2. A \in SUBSET ((1..n) \X U) /\ B \in SUBSET (D \X U)
    BY DEF Area, Work
  <2>3. IsFiniteSet(A)
    <3>1. IsFiniteSet(1..n)
      BY <1>4, FS_Interval
    <3>2. IsFiniteSet((1..n) \X U)
      BY <1>5, <3>1, FS_Product
    <3> QED
      BY <2>2, <3>2, FS_Subset
  <2> HIDE DEF A, B, U
  <2>4. Cardinality(A) = Cardinality(B)
    BY <1>7, <2>1, <2>2, <2>3, PairsThrough
  <2> QED
    BY <2>4 DEF A, B
<1> HIDE DEF n, U
<1>11. /\ sweep(l).weighted = Cardinality(Area(l, n, U))
       /\ sweep(l).peak \in Int /\ sweep(l).peak >= 0
       /\ \A t \in U : Cardinality(Crowd(l, n, t)) <= sweep(l).peak
       /\ sweep(l).peak = 0 \/ \E t \in U : sweep(l).peak <= Cardinality(Crowd(l, n, t))
  BY <1>4, <1>5, <1>6, SweepMeasures
<1>12. Work(s, D, from, to, now) = Work(s, 1..Len(s), from, to, now)
  BY <1>2, WholeTable
<1> QED
  BY <1>1, <1>9, <1>10, <1>11, <1>12 DEF sum, U

(***************************************************************************)
(* The sweep finds the greatest number of runs active at once, runs that   *)
(* only touch not counted as parallel, and its weighted sum is the time    *)
(* of all runs added up.                                                   *)
(***************************************************************************)
THEOREM SweepIsExact == Spec => []ParallelismIsMeasured
<1>1. TypeOK => ParallelismIsMeasured
  <2> SUFFICES ASSUME TypeOK PROVE ParallelismIsMeasured
    OBVIOUS
  <2> DEFINE from == window.from
             to == window.to
             now == window.now
             U == UnitsIn(from, to)
             sum == summary(runs, from, to, now)
             p == sum.peak
             size(t) == Cardinality(ActiveIn(runs, now, t))
             S == {0} \cup {size(t) : t \in U}
  <2>1. /\ runs \in Seq(Run) /\ DOMAIN runs = 1..Len(runs)
        /\ from \in Int /\ from >= 0 /\ to \in Int /\ now \in Int
    BY Requested
  <2>2. /\ Sum = sum /\ Units = U /\ \A t : ActiveAt(t) = ActiveIn(runs, now, t)
    BY <2>1 DEF Sum, Units, UnitsIn, During, Active, ActiveAt, ActiveIn
  <2>3. Work(runs, 1..Len(runs), from, to, now) =
            {x \in (DOMAIN runs) \X Units : During(x[1], x[2])}
    BY <2>1 DEF Work, Units, UnitsIn, During, Active
  <2> HIDE DEF from, to, now
  <2>4. sum.sessionAgentTime = Cardinality(Work(runs, 1..Len(runs), from, to, now))
    BY <2>1, TimesOfTable
  <2>5. /\ sum.weighted = Cardinality(Work(runs, 1..Len(runs), from, to, now))
        /\ p \in Int /\ p >= 0
        /\ \A t \in U : size(t) \in Nat /\ size(t) <= p
        /\ p = 0 \/ \E t \in U : p <= size(t)
    BY <2>1, SweepOfTable
  <2> HIDE DEF sum, U, p
  <2>6. p = Largest(S)
    <3>1. \A m \in S : m <= p /\ m \in Int
      BY <2>5
    <3>2. p \in S
      <4>1. CASE p = 0
        BY <4>1
      <4>2. CASE \E t \in U : p <= size(t)
        <5>1. PICK t \in U : p <= size(t)
          BY <4>2
        <5>2. p = size(t)
          BY <2>5, <5>1
        <5> QED
          BY <5>1, <5>2
      <4> QED
        BY <2>5, <4>1, <4>2
    <3> HIDE DEF S
    <3>3. \A m \in S : (\A k \in S : k <= m) => m = p
      BY <2>5, <3>1, <3>2
    <3> QED
      BY <3>1, <3>2, <3>3 DEF Largest
  <2>7. S = {0} \cup {Cardinality(ActiveAt(t)) : t \in Units}
    BY <2>2
  <2> QED
    BY <2>2, <2>3, <2>4, <2>5, <2>6, <2>7 DEF ParallelismIsMeasured, p
<1> QED
  BY <1>1, Typed, PTL
=============================================================================
