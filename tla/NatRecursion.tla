---------------------------- MODULE NatRecursion ----------------------------
(***************************************************************************)
(* Induction and recursion over the natural numbers in a form the provers  *)
(* can use: the induction hypothesis is membership in a set, and a         *)
(* recursively defined function is given by a step function on a set.      *)
(***************************************************************************)
EXTENDS Integers, WellFoundedInduction, TLAPS

LEMMA LeastNat ==
  ASSUME NEW T, T \subseteq Nat, T # {}
  PROVE  \E m \in T : \A n \in T : m <= n
<1> DEFINE R == OpToRel(<, Nat)
<1>1. IsWellFoundedOn(R, Nat)
  BY NatLessThanWellFounded
<1>2. \A x, y \in Nat : x < y => <<x, y>> \in R
  BY DEF OpToRel
<1> HIDE DEF R
<1>3. PICK m \in T : \A y \in T : ~ (<<y, m>> \in R)
  BY <1>1, WFMin
<1>4. ASSUME NEW n \in T PROVE m <= n
  <2>1. m \in Nat /\ n \in Nat /\ ~(n < m)
    BY <1>2, <1>3
  <2> QED BY <2>1
<1> QED BY <1>4

(***************************************************************************)
(* What holds of 0 and passes from each number to the next holds of all.   *)
(***************************************************************************)
LEMMA NatInd ==
  ASSUME NEW G, 0 \in G, \A n \in Nat : n \in G => n + 1 \in G
  PROVE  \A n \in Nat : n \in G
<1> SUFFICES ASSUME NEW k \in Nat, k \notin G PROVE FALSE
  OBVIOUS
<1>1. PICK m \in Nat \ G : \A n \in Nat \ G : m <= n
  BY LeastNat
<1>2. m > 0 /\ m - 1 \in Nat
  BY <1>1
<1>3. m - 1 \in G
  BY <1>1, <1>2
<1> QED BY <1>1, <1>2, <1>3

(***************************************************************************)
(* The same up to a bound.                                                 *)
(***************************************************************************)
LEMMA BoundedInd ==
  ASSUME NEW N \in Nat, NEW G, 0 \in G,
         \A n \in 0..(N - 1) : n \in G => n + 1 \in G
  PROVE  \A n \in 0..N : n \in G
<1> DEFINE H == {n \in Nat : n <= N => n \in G}
<1>1. 0 \in H
  OBVIOUS
<1>2. ASSUME NEW n \in Nat, n \in H PROVE n + 1 \in H
  <2> SUFFICES ASSUME n + 1 <= N PROVE n + 1 \in G
    OBVIOUS
  <2>1. n \in 0..(N - 1) /\ n \in G
    BY <1>2
  <2> QED BY <2>1
<1> HIDE DEF H
<1>3. \A n \in Nat : n \in H
  BY <1>1, <1>2, NatInd
<1> QED BY <1>3 DEF H

(***************************************************************************)
(* The sequence that starts at a and takes a step from each value to the   *)
(* next exists.                                                            *)
(***************************************************************************)
IsIteration(f, D, a, step) ==
  f = [k \in D |-> IF k = 0 THEN a ELSE step[f[k - 1]]]

LEMMA PrefixExists ==
  ASSUME NEW S, NEW a \in S, NEW step \in [S -> S], NEW N \in Nat
  PROVE  \E f \in [0..N -> S] : IsIteration(f, 0..N, a, step)
<1> DEFINE G == {n \in Nat : \E f \in [0..n -> S] : IsIteration(f, 0..n, a, step)}
<1>1. 0 \in G
  <2> DEFINE f == [k \in 0..0 |-> a]
  <2>1. f \in [0..0 -> S] /\ IsIteration(f, 0..0, a, step)
    BY DEF IsIteration
  <2> QED BY <2>1
<1>2. ASSUME NEW n \in Nat, n \in G PROVE n + 1 \in G
  <2>1. PICK f \in [0..n -> S] : IsIteration(f, 0..n, a, step)
    BY <1>2
  <2> DEFINE g == [k \in 0..(n + 1) |-> IF k = n + 1 THEN step[f[n]] ELSE f[k]]
  <2>2. g \in [0..(n + 1) -> S]
    OBVIOUS
  <2>3. ASSUME NEW k \in 0..(n + 1)
        PROVE  g[k] = IF k = 0 THEN a ELSE step[g[k - 1]]
    <3>1. CASE k = n + 1
      BY <3>1
    <3>2. CASE k # n + 1
      <4>1. k \in 0..n /\ g[k] = f[k]
        BY <3>2
      <4>2. f[k] = IF k = 0 THEN a ELSE step[f[k - 1]]
        BY <2>1, <4>1 DEF IsIteration
      <4>3. k # 0 => k - 1 \in 0..(n + 1) /\ k - 1 # n + 1
        BY <4>1
      <4> QED BY <4>1, <4>2, <4>3
    <3> QED BY <3>1, <3>2
  <2> HIDE DEF g
  <2>4. IsIteration(g, 0..(n + 1), a, step)
    BY <2>2, <2>3 DEF IsIteration
  <2> QED BY <2>2, <2>4
<1> HIDE DEF G
<1>3. N \in G
  BY <1>1, <1>2, NatInd
<1> QED BY <1>3 DEF G

LEMMA PrefixUnique ==
  ASSUME NEW a, NEW step, NEW M \in Nat, NEW N \in Nat, NEW f, NEW g,
         IsIteration(f, 0..M, a, step), IsIteration(g, 0..N, a, step),
         NEW k \in Nat, k <= M, k <= N
  PROVE  f[k] = g[k]
<1> DEFINE G == {n \in Nat : n <= M /\ n <= N => f[n] = g[n]}
<1>1. /\ \A n \in 0..M : f[n] = IF n = 0 THEN a ELSE step[f[n - 1]]
      /\ \A n \in 0..N : g[n] = IF n = 0 THEN a ELSE step[g[n - 1]]
  BY DEF IsIteration
<1>2. 0 \in G
  BY <1>1
<1>3. ASSUME NEW n \in Nat, n \in G PROVE n + 1 \in G
  <2> SUFFICES ASSUME n + 1 <= M, n + 1 <= N PROVE f[n + 1] = g[n + 1]
    OBVIOUS
  <2>1. f[n] = g[n]
    BY <1>3
  <2>2. n + 1 \in 0..M /\ n + 1 \in 0..N /\ n + 1 # 0 /\ n + 1 - 1 = n
    OBVIOUS
  <2> QED BY <1>1, <2>1, <2>2
<1> HIDE DEF G
<1>4. k \in G
  BY <1>2, <1>3, NatInd
<1> QED BY <1>4 DEF G

LEMMA IterationExists ==
  ASSUME NEW S, NEW a \in S, NEW step \in [S -> S]
  PROVE  \E f \in [Nat -> S] : IsIteration(f, Nat, a, step)
<1> DEFINE p == [n \in Nat |-> CHOOSE g \in [0..n -> S] : IsIteration(g, 0..n, a, step)]
           f == [n \in Nat |-> p[n][n]]
<1>1. ASSUME NEW n \in Nat
      PROVE  p[n] \in [0..n -> S] /\ IsIteration(p[n], 0..n, a, step)
  BY PrefixExists
<1> HIDE DEF p
<1>2. f \in [Nat -> S]
  <2>1. ASSUME NEW n \in Nat PROVE p[n][n] \in S
    BY <1>1
  <2> QED BY <2>1
<1>3. ASSUME NEW n \in Nat
      PROVE  f[n] = IF n = 0 THEN a ELSE step[f[n - 1]]
  <2>1. p[n][n] = IF n = 0 THEN a ELSE step[p[n][n - 1]]
    <3>1. PICK q : q = p[n]
      OBVIOUS
    <3>2. q = [k \in 0..n |-> IF k = 0 THEN a ELSE step[q[k - 1]]]
      BY <1>1, <3>1 DEF IsIteration
    <3>3. n \in 0..n
      OBVIOUS
    <3>4. q[n] = IF n = 0 THEN a ELSE step[q[n - 1]]
      BY <3>2, <3>3
    <3> QED BY <3>1, <3>4
  <2>2. n # 0 => p[n][n - 1] = p[n - 1][n - 1]
    <3> SUFFICES ASSUME n # 0 PROVE p[n][n - 1] = p[n - 1][n - 1]
      OBVIOUS
    <3>1. n - 1 \in Nat /\ n - 1 <= n /\ n - 1 <= n - 1
      OBVIOUS
    <3> HIDE DEF f
    <3> QED BY <1>1, <3>1, PrefixUnique
  <2> QED BY <2>1, <2>2
<1> HIDE DEF f
<1>4. IsIteration(f, Nat, a, step)
  BY <1>2, <1>3 DEF IsIteration
<1> QED BY <1>2, <1>4
=============================================================================
