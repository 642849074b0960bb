------------------------------- MODULE Lists -------------------------------
(***************************************************************************)
(* Go's loops and sorts over slices, in a form that can be reasoned about  *)
(* by counting and by induction on the length of a list.                   *)
(***************************************************************************)
EXTENDS Integers, Sequences, FiniteSets

\* The elements of s at the positions DOMAIN ahead, each after those ahead of it
\* (\o << >> makes TLC evaluate the list once and for all).
arranged(s, ahead) ==
    [k \in 1..Cardinality(DOMAIN ahead) |->
        s[CHOOSE i \in DOMAIN ahead : Cardinality(ahead[i]) = k - 1]] \o << >>

\* The elements of s at the positions D.
kept(s, D) == arranged(s, [i \in D |-> {j \in D : j < i}])

\* A stable sort: equal elements keep their places.
sorted(s, less(_, _)) ==
    arranged(s, [i \in DOMAIN s |->
                    {j \in DOMAIN s : less(s[j], s[i]) \/ (~less(s[i], s[j]) /\ j < i)}])

\* A loop over s: step(acc, e) is one turn of it.
loop(step(_, _), start, s) ==
    LET after[n \in 0..Len(s)] == IF n = 0 THEN start ELSE step(after[n - 1], s[n])
    IN  after[Len(s)]

total(s) == loop(LAMBDA sum, n : sum + n, 0, s)
=============================================================================
