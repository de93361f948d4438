---------------------------- MODULE LoopTheorems ----------------------------
(***************************************************************************)
(* Induction over the natural numbers for sets, and the meaning of a loop  *)
(* that is written as a recursive function on the natural numbers: there   *)
(* is a function that satisfies the recursion, so that the function that   *)
(* the definition chooses does.                                            *)
(***************************************************************************)
EXTENDS Integers, WellFoundedInduction, TLAPS

\* A nonempty set of natural numbers has a least element.
LEMMA LeastNumber ==
  ASSUME NEW T, T \subseteq Nat, T # {}
  PROVE  \E x \in T : \A y \in T : x <= y
<1>1. \E x \in T : \A y \in T : ~ (<<y, x>> \in OpToRel(<,Nat))
  BY NatLessThanWellFounded, WFMin, Zenon
<1>2. \A x, y \in Nat : y < x => <<y, x>> \in OpToRel(<,Nat)
  BY Zenon DEF OpToRel
<1>3. \E x \in T : \A y \in T : ~ (y < x)
  BY <1>1, <1>2, Zenon
<1> QED
  BY <1>3

\* A set that holds 0 and with every number the next one holds all of them.
LEMMA SetInduction ==
  ASSUME NEW G, 0 \in G, \A n \in Nat : n \in G => n + 1 \in G
  PROVE  Nat \subseteq G
<1> SUFFICES ASSUME Nat \ G # {} PROVE FALSE
  OBVIOUS
<1>1. PICK x \in Nat \ G : \A y \in Nat \ G : x <= y
  BY LeastNumber, Zenon
<1>2. x # 0
  OBVIOUS
<1>3. x - 1 \in Nat /\ x - 1 \in G
  BY <1>1, <1>2
<1> QED
  BY <1>3

\* f[n] is the state of a loop after n iterations.
IsLoop(f, start, step) == f = [n \in Nat |-> IF n = 0 THEN start ELSE step[f[n - 1]]]

\* n applications of step to start, written as a recursive function.
LEMMA IterationExists ==
  ASSUME NEW S, NEW start \in S, NEW step \in [S -> S]
  PROVE  \E f \in [Nat -> S] : IsLoop(f, start, step)
<1> DEFINE Good(n, g) == g[0] = start /\ \A i \in 1..n : g[i] = step[g[i - 1]]
<1> DEFINE G == {n \in Nat : \E g \in [0..n -> S] : Good(n, g)}
<1>1. 0 \in G
  <2> DEFINE g == [i \in 0..0 |-> start]
  <2>1. Good(0, g) /\ g \in [0..0 -> S]
    OBVIOUS
  <2> QED
    BY <2>1, Zenon
<1>2. ASSUME NEW n \in Nat, n \in G PROVE n + 1 \in G
  <2>1. PICK g \in [0..n -> S] : Good(n, g)
    BY <1>2
  <2> DEFINE h == [i \in 0..(n + 1) |-> IF i = n + 1 THEN step[g[n]] ELSE g[i]]
  <2>2. h \in [0..(n + 1) -> S]
    OBVIOUS
  <2>3. Good(n + 1, h)
    BY <2>1
  <2> HIDE DEF h, Good
  <2>4. \E x \in [0..(n + 1) -> S] : Good(n + 1, x)
    BY <2>2, <2>3
  <2> QED
    BY <2>4
<1>3. Nat \subseteq G
  BY <1>1, <1>2, SetInduction, Zenon
<1>4. ASSUME NEW n \in Nat PROVE \E g \in [0..n -> S] : Good(n, g)
  BY <1>3
<1> HIDE DEF G
<1> DEFINE pick == [n \in Nat |-> CHOOSE g \in [0..n -> S] : Good(n, g)]
<1>5. \A n \in Nat : pick[n] \in [0..n -> S] /\ Good(n, pick[n])
  BY <1>4, Zenon
<1> HIDE DEF pick
<1>6. ASSUME NEW n \in Nat PROVE \A i \in 0..n : pick[i][i] = pick[n][i]
  <2> DEFINE H == {m \in Nat : \A i \in 0..m : \A k \in Nat :
                                  m <= k => pick[m][i] = pick[k][i]}
  <2>1. 0 \in H
    BY <1>5
  <2>2. ASSUME NEW m \in Nat, m \in H PROVE m + 1 \in H
    BY <2>2, <1>5, SMTT(30)
  <2>3. Nat \subseteq H
    BY <2>1, <2>2, SetInduction, Zenon
  <2> QED
    BY <2>3
<1> DEFINE f == [n \in Nat |-> pick[n][n]]
<1>7. \A n \in Nat : f[n] \in S
  BY <1>5
<1>8. \A n \in Nat : f[n] = IF n = 0 THEN start ELSE step[f[n - 1]]
  BY <1>5, <1>6
<1> QED
  BY <1>7, <1>8, Zenon DEF IsLoop

=============================================================================
