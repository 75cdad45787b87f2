------------------------------- MODULE Recursion -------------------------------
(***************************************************************************)
(* Induction and recursion over the natural numbers, for the proofs about  *)
(* what the recursive functions of the other modules compute.  Both rest   *)
(* on the least element of a set of numbers, and state their hypothesis as *)
(* a set.                                                                  *)
(***************************************************************************)
EXTENDS Integers, WellFoundedInduction, TLAPS

LEMMA LeastOf ==
    ASSUME NEW T, T \subseteq Nat, T # {}
    PROVE  \E x \in T : \A y \in T : x <= y
  <1> DEFINE R == OpToRel(<, Nat)
  <1>1. PICK x \in T : \A y \in T : ~(<<y, x>> \in R)
    <2>1. IsWellFoundedOn(R, Nat)
      BY NatLessThanWellFounded, Zenon
    <2> HIDE DEF R
    <2>2. QED BY <2>1, WFMin, Zenon
  <1>2. ASSUME NEW y \in T PROVE x <= y
    <2>1. ~(y < x)
      BY <1>1 DEF OpToRel
    <2>2. QED BY <2>1
  <1>3. QED BY <1>2

LEMMA Induction ==
    ASSUME NEW S, 0 \in S, \A n \in Nat : n \in S => n + 1 \in S
    PROVE  Nat \subseteq S
  <1>1. SUFFICES ASSUME Nat \ S # {} PROVE FALSE
    OBVIOUS
  <1>2. PICK n \in Nat \ S : \A m \in Nat \ S : n <= m
    <2>1. \A T : T \subseteq Nat /\ T # {} => \E x \in T : \A y \in T : x <= y
      BY LeastOf
    <2>2. QED BY <1>1, <2>1
  <1>3. n - 1 \in Nat /\ n - 1 \in S
    BY <1>2
  <1>4. QED BY <1>2, <1>3

(* A recursive function with values in S: g[0] is given, and g[i] is made of g[i - 1]
   by the i-th step. *)
IsRun(g, S, base, n, step) ==
    /\ g \in [0 .. n -> S] /\ g[0] = base
    /\ \A i \in 1 .. n : g[i] = step[i][g[i - 1]]

LEMMA RecursionExists ==
    ASSUME NEW S, NEW base \in S, NEW n \in Nat, NEW step,
           \A i \in 1 .. n : \A x \in S : step[i][x] \in S
    PROVE  \E g : IsRun(g, S, base, n, step)
  <1> DEFINE Is(g, k) == g[0] = base /\ \A i \in 1 .. k : g[i] = step[i][g[i - 1]]
             Good == {k \in Nat : k <= n => \E g \in [0 .. k -> S] : Is(g, k)}
  <1>1. 0 \in Good
    <2>1. [i \in 0 .. 0 |-> base] \in [0 .. 0 -> S] /\ Is([i \in 0 .. 0 |-> base], 0)
      OBVIOUS
    <2>2. QED BY <2>1
  <1>2. ASSUME NEW k \in Nat, k \in Good PROVE k + 1 \in Good
    <2>1. SUFFICES ASSUME k + 1 <= n PROVE \E g \in [0 .. k + 1 -> S] : Is(g, k + 1)
      OBVIOUS
    <2>2. PICK g \in [0 .. k -> S] : Is(g, k)
      BY <1>2, <2>1
    <2> DEFINE h == [i \in 0 .. k + 1 |-> IF i <= k THEN g[i] ELSE step[k + 1][g[k]]]
    <2>3. step[k + 1][g[k]] \in S
      BY <2>1, <2>2
    <2>4. h \in [0 .. k + 1 -> S]
      BY <2>3, <2>2
    <2>5. \A i \in 1 .. k : h[i] = g[i] /\ h[i - 1] = g[i - 1]
      OBVIOUS
    <2>6. h[k + 1] = step[k + 1][h[k]] /\ h[0] = g[0]
      OBVIOUS
    <2>7. Is(h, k + 1)
      BY <2>2, <2>5, <2>6
    <2>8. QED BY <2>4, <2>7
  <1>3. n \in Good
    <2> HIDE DEF Good
    <2>1. QED BY <1>1, <1>2, Induction
  <1>4. QED BY <1>3 DEF IsRun
===============================================================================
