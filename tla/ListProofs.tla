----------------------------- MODULE ListProofs -----------------------------
(***************************************************************************)
(* What the loops and sorts of module Lists compute: a loop can be         *)
(* unfolded one turn at a time, a sort enumerates the positions of a list  *)
(* in order, and a total counts.                                           *)
(***************************************************************************)
EXTENDS Lists, FiniteSetTheorems, WellFoundedInduction, TLAPS

-----------------------------------------------------------------------------
\* Sets of numbers.

LEMMA LeastNumber ==
    ASSUME NEW T \in SUBSET Nat, T # {}
    PROVE  \E x \in T : \A y \in T : x <= y
<1>1. PICK R : /\ IsWellFoundedOn(R, Nat)
               /\ \A x, y \in Nat : y < x => <<y, x>> \in R
  <2>1. IsWellFoundedOn(OpToRel(<, Nat), Nat)
    BY NatLessThanWellFounded
  <2>2. \A x, y \in Nat : y < x => <<y, x>> \in OpToRel(<, Nat)
    BY DEF OpToRel
  <2> QED
    BY <2>1, <2>2
<1>2. PICK x \in T : \A y \in T : ~(<<y, x>> \in R)
  BY <1>1, WFMin
<1>3. ASSUME NEW y \in T PROVE x <= y
  <2>1. x \in Nat /\ y \in Nat
    OBVIOUS
  <2>2. ~(y < x)
    BY <1>1, <1>2, <2>1
  <2> QED
    BY <2>1, <2>2
<1> QED
  BY <1>3

LEMMA GreatestNumber ==
    ASSUME NEW m \in Nat, NEW T \in SUBSET (0..m), T # {}
    PROVE  \E x \in T : \A y \in T : y <= x
<1> DEFINE D == {m - y : y \in T}
<1>1. D \in SUBSET Nat /\ D # {}
  OBVIOUS
<1>2. PICK d \in D : \A e \in D : d <= e
  BY <1>1, LeastNumber
<1>3. PICK x \in T : d = m - x
  OBVIOUS
<1>4. ASSUME NEW y \in T PROVE y <= x
  <2>1. m - y \in D
    OBVIOUS
  <2> QED
    BY <1>2, <1>3, <2>1
<1> QED
  BY <1>4

\* A set of numbers up to N that holds 0 and the next of each of its members
\* holds them all: induction for the loops below.
LEMMA UpTo ==
    ASSUME NEW N \in Nat, NEW T, 0 \in T,
           \A n \in 0..N : n < N /\ n \in T => n + 1 \in T
    PROVE  \A n \in 0..N : n \in T
<1> DEFINE B == {n \in 0..N : n \notin T}
<1> SUFFICES ASSUME B # {} PROVE FALSE
  OBVIOUS
<1>1. B \in SUBSET Nat
  OBVIOUS
<1>2. PICK m \in B : \A y \in B : m <= y
  BY <1>1, LeastNumber
<1>3. m # 0 /\ m \in 0..N /\ m \notin T
  OBVIOUS
<1>4. m - 1 \in 0..N /\ m - 1 < N /\ (m - 1) + 1 = m /\ ~(m <= m - 1)
  BY <1>3
<1>5. m - 1 \in T
  BY <1>2, <1>4
<1> QED
  BY <1>3, <1>4, <1>5

-----------------------------------------------------------------------------
\* Finite sets.

LEMMA DisjointSizes ==
    ASSUME NEW S, NEW T, IsFiniteSet(S), IsFiniteSet(T), S \cap T = {}
    PROVE  /\ IsFiniteSet(S \cup T)
           /\ Cardinality(S \cup T) = Cardinality(S) + Cardinality(T)
<1>1. Cardinality(S \cap T) = 0
  BY FS_EmptySet
<1>2. Cardinality(S) \in Nat /\ Cardinality(T) \in Nat
  BY FS_CardinalityType
<1>3. IsFiniteSet(S \cup T)
      /\ Cardinality(S \cup T) = Cardinality(S) + Cardinality(T) - Cardinality(S \cap T)
  BY FS_Union
<1> QED
  BY <1>1, <1>2, <1>3

\* A one-to-one function keeps the size.
LEMMA SameSize ==
    ASSUME NEW S, IsFiniteSet(S), NEW T, NEW f \in [S -> T],
           \A x, y \in S : f[x] = f[y] => x = y,
           \A z \in T : \E x \in S : f[x] = z
    PROVE  IsFiniteSet(T) /\ Cardinality(T) = Cardinality(S)
<1>1. f \in Bijection(S, T)
  BY DEF Bijection, Injection, Surjection, IsInjective
<1>2. ExistsBijection(S, T)
  BY <1>1 DEF ExistsBijection
<1> QED
  BY <1>2, FS_Bijection

-----------------------------------------------------------------------------
\* Loops.

\* g[<<n, x>>] is what turn n makes of x: in A if x is.
Closed(g, N, A) == \A n \in 1..N : \A x \in A : g[<<n, x>>] \in A

\* The values of a variable that starts with b and is g[<<n, x>>] after turn n.
Values(f, g, N, b) == f[0] = b /\ \A n \in 1..N : f[n] = g[<<n, f[n - 1]>>]

LEMMA LoopExists ==
    ASSUME NEW N \in Nat, NEW A, NEW b \in A, NEW g, Closed(g, N, A)
    PROVE  \E f \in [0..N -> A] : Values(f, g, N, b)
<1> DEFINE T == {m \in 0..N : \E f \in [0..m -> A] : Values(f, g, m, b)}
<1>1. 0 \in T
  <2>1. PICK f : f = [n \in 0..0 |-> b]
    OBVIOUS
  <2>2. f \in [0..0 -> A] /\ Values(f, g, 0, b) /\ 0 \in 0..N
    BY <2>1 DEF Values
  <2> QED
    BY <2>2
<1>2. ASSUME NEW m \in 0..N, m < N, m \in T PROVE m + 1 \in T
  <2>1. PICK f \in [0..m -> A] : Values(f, g, m, b)
    BY <1>2
  <2> DEFINE h == [n \in 0..(m + 1) |-> IF n = m + 1 THEN g[<<m + 1, f[m]>>] ELSE f[n]]
  <2>2. f[m] \in A /\ g[<<m + 1, f[m]>>] \in A
    BY <1>2 DEF Closed
  <2>3. h \in [0..(m + 1) -> A]
    BY <2>2
  <2>4. h[0] = b
    BY <1>2, <2>1 DEF Values
  <2>5. ASSUME NEW n \in 1..(m + 1) PROVE h[n] = g[<<n, h[n - 1]>>]
    <3>1. n - 1 \in 0..m /\ h[n - 1] = f[n - 1]
      OBVIOUS
    <3>2. CASE n = m + 1
      <4>1. h[n] = g[<<m + 1, f[m]>>] /\ n - 1 = m
        BY <3>2
      <4> QED
        BY <3>1, <3>2, <4>1
    <3>3. CASE n # m + 1
      <4>1. n \in 1..m /\ h[n] = f[n]
        BY <3>3
      <4> QED
        BY <2>1, <3>1, <4>1 DEF Values
    <3> QED
      BY <3>2, <3>3
  <2>6. m + 1 \in 0..N
    BY <1>2
  <2>7. Values(h, g, m + 1, b)
    BY <2>4, <2>5 DEF Values
  <2> QED
    BY <2>3, <2>6, <2>7
<1> HIDE DEF T
<1>3. N \in T
  BY <1>1, <1>2, UpTo
<1> QED
  BY <1>3 DEF T

-----------------------------------------------------------------------------
\* Sorts.

\* f enumerates D.
Enumerates(f, D) ==
    /\ f \in [1..Cardinality(D) -> D]
    /\ \A k, l \in 1..Cardinality(D) : f[k] = f[l] => k = l
    /\ \A i \in D : \E k \in 1..Cardinality(D) : f[k] = i

\* r is s, read at the positions f[1], ..., f[n].
ReadAt(r, s, f, n) == r = [k \in 1..n |-> s[f[k]]]

\* Every position has a set of positions ahead of it, in a total order.
Orders(ahead, D) ==
    /\ ahead \in [D -> SUBSET D]
    /\ \A i \in D : i \notin ahead[i]
    /\ \A i, j \in D : i \in ahead[j] \/ j \in ahead[i] \/ i = j
    /\ \A i, j, k \in D : i \in ahead[j] /\ j \in ahead[k] => i \in ahead[k]

LEMMA PlacesGrow ==
    ASSUME NEW D, IsFiniteSet(D), NEW ahead, Orders(ahead, D), NEW i \in D
    PROVE  /\ IsFiniteSet(ahead[i])
           /\ Cardinality(ahead[i]) \in 0..(Cardinality(D) - 1)
           /\ \A j \in ahead[i] : Cardinality(ahead[j]) < Cardinality(ahead[i])
<1>1. ahead[i] \subseteq D \ {i} /\ IsFiniteSet(D \ {i})
  BY FS_RemoveElement DEF Orders
<1>2. /\ IsFiniteSet(ahead[i]) /\ Cardinality(ahead[i]) \in Nat
      /\ Cardinality(ahead[i]) <= Cardinality(D \ {i})
  BY <1>1, FS_Subset, FS_CardinalityType
<1>3. Cardinality(D \ {i}) = Cardinality(D) - 1 /\ Cardinality(D) \in Nat
  BY FS_RemoveElement, FS_CardinalityType
<1>4. ASSUME NEW j \in ahead[i] PROVE Cardinality(ahead[j]) < Cardinality(ahead[i])
  <2>1. j \in D /\ ahead[j] \subseteq ahead[i] \ {j}
    BY DEF Orders
  <2>2. IsFiniteSet(ahead[i] \ {j}) /\ Cardinality(ahead[i] \ {j}) = Cardinality(ahead[i]) - 1
    BY <1>2, <1>4, FS_RemoveElement
  <2>3. Cardinality(ahead[j]) <= Cardinality(ahead[i] \ {j}) /\ IsFiniteSet(ahead[j])
    BY <2>1, <2>2, FS_Subset
  <2>4. Cardinality(ahead[j]) \in Nat
    BY <2>3, FS_CardinalityType
  <2> QED
    BY <1>2, <2>2, <2>3, <2>4
<1> QED
  BY <1>2, <1>3, <1>4

\* Counting what is ahead finds the positions one after the other.
LEMMA ArrangedInOrder ==
    ASSUME NEW D, IsFiniteSet(D), NEW ahead, Orders(ahead, D), NEW s
    PROVE  \E f : /\ Enumerates(f, D)
                  /\ \A k, l \in 1..Cardinality(D) : k < l => f[k] \in ahead[f[l]]
                  /\ ReadAt(arranged(s, ahead), s, f, Cardinality(D))
<1> DEFINE N == Cardinality(D)
           place == [i \in D |-> Cardinality(ahead[i])]
           f == [k \in 1..N |-> CHOOSE i \in D : Cardinality(ahead[i]) = k - 1]
<1>0. N \in Nat /\ DOMAIN ahead = D
  BY FS_CardinalityType DEF Orders
<1> HIDE DEF N
<1>1. \A i \in D : place[i] \in 0..(N - 1)
  BY PlacesGrow DEF N
<1>2. \A i \in D : \A j \in ahead[i] : place[j] < place[i]
  <2>1. \A i \in D : \A j \in ahead[i] : j \in D
    BY DEF Orders
  <2> QED
    BY <2>1, PlacesGrow
<1>3. \A i, j \in D : place[i] = place[j] => i = j
  <2> SUFFICES ASSUME NEW i \in D, NEW j \in D, place[i] = place[j], i # j PROVE FALSE
    OBVIOUS
  <2>1. i \in ahead[j] \/ j \in ahead[i]
    BY DEF Orders
  <2>2. place[i] < place[j] \/ place[j] < place[i]
    BY <1>2, <2>1
  <2>3. place[i] \in Int /\ place[j] \in Int
    BY <1>1
  <2> QED
    BY <2>2, <2>3
<1>4. ASSUME NEW k \in 1..N PROVE \E i \in D : place[i] = k - 1
  <2>1. IsFiniteSet(0..(N - 1)) /\ Cardinality(0..(N - 1)) = N
    <3>1. /\ IsFiniteSet(0..(N - 1))
          /\ Cardinality(0..(N - 1)) = IF 0 > N - 1 THEN 0 ELSE (N - 1) - 0 + 1
      BY <1>0, FS_Interval
    <3> QED
      BY <1>0, <3>1
  <2>2. place \in Injection(D, 0..(N - 1))
    BY <1>1, <1>3 DEF Injection, IsInjective
  <2>3. place \in Surjection(D, 0..(N - 1))
    BY <2>1, <2>2, FS_Injection DEF N
  <2>4. k - 1 \in 0..(N - 1)
    BY <1>0
  <2> QED
    BY <2>3, <2>4 DEF Surjection
<1>5. \A k \in 1..N : f[k] \in D /\ place[f[k]] = k - 1
  BY <1>4
<1> HIDE DEF f, place
<1>6. ASSUME NEW i \in D PROVE \E k \in 1..N : f[k] = i
  <2>1. place[i] + 1 \in 1..N /\ (place[i] + 1) - 1 = place[i]
    BY <1>0, <1>1
  <2>2. f[place[i] + 1] \in D /\ place[f[place[i] + 1]] = place[i]
    BY <1>5, <2>1
  <2> QED
    BY <1>3, <2>1, <2>2
<1>7. ASSUME NEW k \in 1..N, NEW l \in 1..N, f[k] = f[l] PROVE k = l
  BY <1>0, <1>5, <1>7
<1>8. ASSUME NEW k \in 1..N, NEW l \in 1..N, k < l PROVE f[k] \in ahead[f[l]]
  <2>1. /\ f[k] \in D /\ place[f[k]] = k - 1
        /\ f[l] \in D /\ place[f[l]] = l - 1
    BY <1>5
  <2>2. f[k] # f[l]
    BY <1>7, <1>8
  <2>3. ~(f[l] \in ahead[f[k]])
    BY <1>0, <1>2, <1>8, <2>1
  <2> QED
    BY <2>1, <2>2, <2>3 DEF Orders
<1>9. f \in [1..N -> D]
  BY <1>5 DEF f
<1>10. arranged(s, ahead) = [k \in 1..N |-> s[f[k]]]
  <2> DEFINE a == [k \in 1..N |-> s[f[k]]]
  <2>1. arranged(s, ahead) = a \o << >>
    BY <1>0 DEF arranged, f, N
  <2>2. a \in Seq({s[i] : i \in D})
    BY <1>0, <1>9
  <2> HIDE DEF a
  <2>3. a \o << >> = a
    BY <2>2
  <2> QED
    BY <2>1, <2>3 DEF a
<1> QED
  BY <1>6, <1>7, <1>8, <1>9, <1>10 DEF Enumerates, ReadAt, N

LEMMA KeptInOrder ==
    ASSUME NEW n \in Nat, NEW D \in SUBSET (1..n), NEW s
    PROVE  /\ IsFiniteSet(D)
           /\ \E f : /\ Enumerates(f, D)
                     /\ \A k, l \in 1..Cardinality(D) : k < l => f[k] < f[l]
                     /\ ReadAt(kept(s, D), s, f, Cardinality(D))
<1> DEFINE ahead == [i \in D |-> {j \in D : j < i}]
<1>1. IsFiniteSet(D)
  <2>1. IsFiniteSet(1..n)
    BY FS_Interval
  <2> QED
    BY <2>1, FS_Subset
<1>2. Orders(ahead, D)
  <2>1. \A i \in D : i \in Int
    OBVIOUS
  <2> QED
    BY <2>1 DEF Orders
<1>3. kept(s, D) = arranged(s, ahead)
  BY DEF kept
<1>4. \A i \in D : \A j \in ahead[i] : j < i
  OBVIOUS
<1> HIDE DEF ahead
<1>5. PICK f : /\ Enumerates(f, D)
               /\ \A k, l \in 1..Cardinality(D) : k < l => f[k] \in ahead[f[l]]
               /\ ReadAt(arranged(s, ahead), s, f, Cardinality(D))
  BY <1>1, <1>2, ArrangedInOrder
<1>6. \A k \in 1..Cardinality(D) : f[k] \in D
  BY <1>5 DEF Enumerates
<1> QED
  BY <1>1, <1>3, <1>4, <1>5, <1>6

-----------------------------------------------------------------------------
\* Lists.

LEMMA IsList ==
    ASSUME NEW n \in Nat, NEW S, NEW s \in [1..n -> S]
    PROVE  s \in Seq(S) /\ Len(s) = n /\ DOMAIN s = 1..n
OBVIOUS

LEMMA TotalTurns ==
    ASSUME NEW n \in Nat, NEW s \in [1..n -> Nat]
    PROVE  \E f \in [0..n -> Nat] :
              /\ f[0] = 0 /\ \A k \in 1..n : f[k] = f[k - 1] + s[k]
              /\ total(s) = f[n]
<1>0. Len(s) = n /\ 0 \in Nat
  BY IsList
<1>1. PICK g : \A k \in 1..n : \A a \in Nat : g[<<k, a>>] = a + s[k] /\ g[<<k, a>>] \in Nat
  <2> DEFINE g == [x \in (1..n) \X Nat |-> x[2] + s[x[1]]]
  <2>1. \A k \in 1..n : \A a \in Nat : g[<<k, a>>] = a + s[k] /\ g[<<k, a>>] \in Nat
    OBVIOUS
  <2> HIDE DEF g
  <2> QED
    BY <2>1
<1>2. PICK f \in [0..n -> Nat] : Values(f, g, n, 0)
  <2>1. Closed(g, n, Nat)
    BY <1>1 DEF Closed
  <2> QED
    BY <1>0, <2>1, LoopExists
<1>3. \A k \in 1..n : f[k] = f[k - 1] + s[k]
  <2>1. \A k \in 1..n : k - 1 \in 0..n /\ f[k - 1] \in Nat
    OBVIOUS
  <2> QED
    BY <1>1, <1>2, <2>1 DEF Values
<1> DEFINE F == CHOOSE h : h = [k \in 0..Len(s) |-> IF k = 0 THEN 0 ELSE h[k - 1] + s[k]]
<1>4. total(s) = F[Len(s)]
  BY DEF total, loop
<1>5. F = [k \in 0..Len(s) |-> IF k = 0 THEN 0 ELSE F[k - 1] + s[k]]
  <2>1. \A k \in 0..n : f[k] = IF k = 0 THEN 0 ELSE f[k - 1] + s[k]
    BY <1>2, <1>3 DEF Values
  <2>2. f = [k \in 0..Len(s) |-> IF k = 0 THEN 0 ELSE f[k - 1] + s[k]]
    BY <1>0, <2>1
  <2> QED
    BY <2>2
<1> HIDE DEF F
<1>6. \A k \in 0..n : F[k] = f[k]
  <2> DEFINE T == {k \in 0..n : F[k] = f[k]}
  <2>1. 0 \in T
    BY <1>0, <1>2, <1>5 DEF Values
  <2>2. ASSUME NEW k \in 0..n, k < n, k \in T PROVE k + 1 \in T
    <3>1. k + 1 \in 1..n /\ (k + 1) - 1 = k /\ k + 1 \in 0..n
      BY <2>2
    <3>2. F[k + 1] = F[k] + s[k + 1] /\ f[k + 1] = f[k] + s[k + 1]
      BY <1>0, <1>3, <1>5, <3>1
    <3> QED
      BY <2>2, <3>1, <3>2
  <2> HIDE DEF T
  <2>3. \A k \in 0..n : k \in T
    BY <2>1, <2>2, UpTo
  <2> QED
    BY <2>3 DEF T
<1>7. total(s) = f[n]
  BY <1>0, <1>4, <1>6
<1> QED
  BY <1>2, <1>3, <1>7 DEF Values

\* Place k has s[k] things.
Sizes(A, s, n) == \A k \in 1..n : Cardinality(A[k]) = s[k]

\* The pairs of a place and a thing there.
Pairs(A, n, U) == {x \in (1..n) \X U : x[2] \in A[x[1]]}

LEMMA PairsGrow ==
    ASSUME NEW m \in Nat, NEW U, IsFiniteSet(U), NEW A, A[m + 1] \subseteq U,
           IsFiniteSet(Pairs(A, m, U))
    PROVE  /\ IsFiniteSet(Pairs(A, m + 1, U))
           /\ Cardinality(Pairs(A, m + 1, U)) =
                  Cardinality(Pairs(A, m, U)) + Cardinality(A[m + 1])
<1> DEFINE B == {x \in {m + 1} \X U : x[2] \in A[x[1]]}
           h == [u \in A[m + 1] |-> <<m + 1, u>>]
<1>1. IsFiniteSet(A[m + 1])
  BY FS_Subset
<1>2. h \in [A[m + 1] -> B]
  OBVIOUS
<1>3. \A x, y \in A[m + 1] : h[x] = h[y] => x = y
  OBVIOUS
<1>4. \A z \in B : \E x \in A[m + 1] : h[x] = z
  OBVIOUS
<1>5. Pairs(A, m + 1, U) = Pairs(A, m, U) \cup B
  <2>1. \A k : k \in 1..(m + 1) <=> k \in 1..m \/ k = m + 1
    OBVIOUS
  <2> QED
    BY <2>1 DEF Pairs
<1>6. Pairs(A, m, U) \cap B = {}
  BY DEF Pairs
<1> HIDE DEF h, B
<1>7. IsFiniteSet(B) /\ Cardinality(B) = Cardinality(A[m + 1])
  BY <1>1, <1>2, <1>3, <1>4, SameSize
<1> QED
  BY <1>5, <1>6, <1>7, DisjointSizes

\* A total of sizes is the number of pairs.
LEMMA TotalCounts ==
    ASSUME NEW n \in Nat, NEW s \in [1..n -> Nat], NEW U, IsFiniteSet(U),
           NEW A \in [1..n -> SUBSET U], Sizes(A, s, n)
    PROVE  IsFiniteSet(Pairs(A, n, U)) /\ total(s) = Cardinality(Pairs(A, n, U))
<1>1. PICK f \in [0..n -> Nat] :
              /\ f[0] = 0 /\ \A k \in 1..n : f[k] = f[k - 1] + s[k]
              /\ total(s) = f[n]
  BY TotalTurns
<1> DEFINE T == {m \in 0..n : IsFiniteSet(Pairs(A, m, U)) /\ Cardinality(Pairs(A, m, U)) = f[m]}
<1>2. 0 \in T
  <2>1. Pairs(A, 0, U) = {} /\ 0 \in 0..n
    BY DEF Pairs
  <2>2. IsFiniteSet(Pairs(A, 0, U)) /\ Cardinality(Pairs(A, 0, U)) = 0
    BY <2>1, FS_EmptySet
  <2> QED
    BY <1>1, <2>1, <2>2
<1>3. ASSUME NEW m \in 0..n, m < n, m \in T PROVE m + 1 \in T
  <2>1. m + 1 \in 1..n /\ m + 1 \in 0..n /\ m \in Nat /\ (m + 1) - 1 = m
    BY <1>3
  <2>2. A[m + 1] \subseteq U /\ Cardinality(A[m + 1]) = s[m + 1]
    BY <2>1 DEF Sizes
  <2>3. IsFiniteSet(Pairs(A, m, U)) /\ Cardinality(Pairs(A, m, U)) = f[m]
    BY <1>3
  <2>4. /\ IsFiniteSet(Pairs(A, m + 1, U))
        /\ Cardinality(Pairs(A, m + 1, U)) = f[m] + s[m + 1]
    BY <2>1, <2>2, <2>3, PairsGrow
  <2>5. f[m + 1] = f[m] + s[m + 1]
    BY <1>1, <2>1
  <2> QED
    BY <2>1, <2>4, <2>5
<1> HIDE DEF T
<1>4. n \in T
  <2>1. \A m \in 0..n : m \in T
    BY <1>2, <1>3, UpTo
  <2> QED
    BY <2>1
<1> QED
  BY <1>1, <1>4 DEF T
=============================================================================
