------------------------------- MODULE RecFuns -------------------------------
(***************************************************************************)
(* Induction and recursion up to a natural number, as facts about sets and *)
(* functions: what the proofs about loops of the code (the split into      *)
(* lines of view_memopen, the scan of handle_control) rest on.             *)
(***************************************************************************)
EXTENDS Integers, WellFoundedInduction, TLAPS

\* A set of naturals that is not empty has a least element.
LEMMA LeastNat ==
    ASSUME NEW T \in SUBSET Nat, T # {}
    PROVE  \E x \in T : \A y \in T : x <= y
<1> DEFINE R == {p \in Nat \X Nat : p[1] < p[2]}
<1>1. IsWellFoundedOn(R, Nat)
  BY NatLessThanWellFounded DEF OpToRel
<1>2. PICK x \in T : \A y \in T : ~(<<y, x>> \in R)
  <2> HIDE DEF R
  <2>1. QED
    BY <1>1, WFMin
<1>3. \A y \in T : y < x => <<y, x>> \in R
  OBVIOUS
<1>4. \A y \in T : ~(y < x)
  BY <1>2, <1>3
<1>5. QED
  BY <1>4

\* Induction from 0 to n: a set that has 0, and each number after one it has,
\* has them all.
LEMMA UpTo ==
    ASSUME NEW n \in Nat, NEW T, 0 \in T,
           \A i \in 1..n : i - 1 \in T => i \in T
    PROVE  \A i \in 0..n : i \in T
<1> DEFINE B == {i \in 0..n : i \notin T}
<1> SUFFICES ASSUME B # {} PROVE FALSE
  OBVIOUS
<1>1. B \in SUBSET Nat
  OBVIOUS
<1>2. PICK x \in B : \A y \in B : x <= y
  <2> HIDE DEF B
  <2>1. QED
    BY <1>1, LeastNat
<1>3. x \in 1..n /\ x - 1 \in 0..n
  OBVIOUS
<1>4. x - 1 \notin B
  BY <1>2, <1>3
<1>5. x - 1 \in T
  BY <1>3, <1>4
<1>6. QED
  BY <1>3, <1>5

\* n steps from s0 that stay within S
Stepping(n, S, s0, step) ==
    n \in Nat /\ s0 \in S /\ \A i \in 1..n, s \in S : step[i][s] \in S

\* what they come to
StepsOf(g, n, S, s0, step) ==
    g \in [0..n -> S] /\ g[0] = s0 /\ \A i \in 1..n : g[i] = step[i][g[i - 1]]

\* There is a function of the results of n steps, each made from the one before.
LEMMA StepsExist ==
    ASSUME NEW n, NEW S, NEW s0, NEW step, Stepping(n, S, s0, step)
    PROVE  \E g : StepsOf(g, n, S, s0, step)
<1> USE DEF Stepping
<1> DEFINE T == {m \in 0..n : \E g \in [0..m -> S] :
                    g[0] = s0 /\ \A i \in 1..m : g[i] = step[i][g[i - 1]]}
<1>1. 0 \in T
  <2> DEFINE g == [i \in 0..0 |-> s0]
  <2>1. g \in [0..0 -> S] /\ g[0] = s0
    OBVIOUS
  <2>2. \A i \in 1..0 : g[i] = step[i][g[i - 1]]
    OBVIOUS
  <2> HIDE DEF g
  <2>3. QED
    BY <2>1, <2>2
<1>2. ASSUME NEW m \in 1..n, m - 1 \in T
      PROVE  m \in T
  <2>1. PICK g \in [0..(m - 1) -> S] :
            g[0] = s0 /\ \A i \in 1..(m - 1) : g[i] = step[i][g[i - 1]]
    BY <1>2
  <2> DEFINE new == step[m][g[m - 1]]
             h == [i \in 0..m |-> IF i = m THEN new ELSE g[i]]
  <2>2. new \in S
    <3>1. g[m - 1] \in S
      BY <2>1
    <3>2. QED
      BY <3>1
  <2>3. h[m] = step[m][g[m - 1]]
    OBVIOUS
  <2> HIDE DEF new
  <2>4. \A i \in 0..(m - 1) : h[i] = g[i] /\ h[i] \in S
    BY <2>1
  <2>5. h \in [0..m -> S]
    BY <2>1, <2>2
  <2> HIDE DEF h
  <2>6. h[0] = s0
    BY <2>1, <2>4
  <2>7. ASSUME NEW i \in 1..m
        PROVE  h[i] = step[i][h[i - 1]]
    <3>1. i - 1 \in 0..(m - 1)
      OBVIOUS
    <3>2. h[i - 1] = g[i - 1]
      BY <2>4, <3>1
    <3>3. CASE i = m
      BY <2>3, <3>2, <3>3
    <3>4. CASE i # m
      <4>1. i \in 1..(m - 1) /\ i \in 0..(m - 1)
        BY <3>4
      <4>2. h[i] = g[i] /\ g[i] = step[i][g[i - 1]]
        BY <2>1, <2>4, <4>1
      <4>3. QED
        BY <3>2, <4>2
    <3>5. QED
      BY <3>3, <3>4
  <2>8. \A i \in 1..m : h[i] = step[i][h[i - 1]]
    BY <2>7
  <2>9. \E f \in [0..m -> S] : f[0] = s0 /\ \A i \in 1..m : f[i] = step[i][f[i - 1]]
    BY <2>5, <2>6, <2>8
  <2>10. m \in 0..n
    OBVIOUS
  <2>11. QED
    BY <2>9, <2>10
<1> HIDE DEF T
<1>3. \A i \in 0..n : i \in T
  BY <1>1, <1>2, UpTo
<1>4. n \in T
  BY <1>3
<1>5. QED
  BY <1>4 DEF T, StepsOf
=============================================================================
