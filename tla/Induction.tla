------------------------------ MODULE Induction ------------------------------
(***************************************************************************)
(* Induction as the proofs use it: over sets of numbers, and not over      *)
(* operators, which the provers cannot instantiate.  It rests on the       *)
(* well-foundedness of < on Nat.                                           *)
(***************************************************************************)
EXTENDS Naturals, WellFoundedInduction, TLAPS

\* A set of numbers that is not empty has a least element.
LEMMA LeastElement ==
    ASSUME NEW T, T \subseteq Nat, T # {}
    PROVE  \E m \in T : \A k \in T : ~(k < m)
<1> DEFINE R == {ss \in Nat \X Nat : ss[1] < ss[2]}
<1>1. IsWellFoundedOn(R, Nat)
  BY NatLessThanWellFounded DEF OpToRel
<1> HIDE DEF R
<1>2. \E x \in T : \A y \in T : ~(<<y, x>> \in R)
  BY <1>1, WFMin
<1>3. \A x, y \in T : <<y, x>> \in R <=> y < x
  BY DEF R
<1>4. QED
  BY <1>2, <1>3

\* A set that holds 0 and the successor of each of its numbers holds them all.
LEMMA SetInduction ==
    ASSUME NEW S, 0 \in S, \A n \in Nat : n \in S => n + 1 \in S
    PROVE  Nat \subseteq S
<1> SUFFICES ASSUME Nat \ S # {} PROVE FALSE
  OBVIOUS
<1>1. PICK m \in Nat \ S : \A k \in Nat \ S : ~(k < m)
  <2>1. Nat \ S \subseteq Nat
    OBVIOUS
  <2>2. QED
    BY <2>1, LeastElement
<1>2. m - 1 \in Nat /\ m - 1 < m
  BY <1>1
<1>3. QED
  BY <1>1, <1>2

\* A function defined by recursion on 0..N exists, its step being a function.
LEMMA RecursionExists ==
    ASSUME NEW T, NEW base \in T, NEW N \in Nat, NEW step \in [1..N -> [T -> T]]
    PROVE  \E f \in [0..N -> T] :
               f[0] = base /\ \A n \in 1..N : f[n] = step[n][f[n - 1]]
<1> DEFINE Defined(m, f) ==
              \A n \in 0..m : f[n] = IF n = 0 THEN base ELSE step[n][f[n - 1]]
           S == {m \in Nat : m <= N => \E f \in [0..m -> T] : Defined(m, f)}
<1>1. 0 \in S
  <2>1. [n \in 0..0 |-> base] \in [0..0 -> T] /\ Defined(0, [n \in 0..0 |-> base])
    OBVIOUS
  <2>2. QED
    BY <2>1
<1>2. ASSUME NEW m \in Nat, m \in S PROVE m + 1 \in S
  <2>1. SUFFICES ASSUME m + 1 <= N
                 PROVE  \E f \in [0..m + 1 -> T] : Defined(m + 1, f)
    OBVIOUS
  <2>2. PICK g \in [0..m -> T] : Defined(m, g)
    BY <1>2, <2>1
  <2> DEFINE h == [n \in 0..m + 1 |-> IF n <= m THEN g[n] ELSE step[m + 1][g[m]]]
  <2>3. step[m + 1][g[m]] \in T
    <3>1. g[m] \in T /\ m + 1 \in 1..N
      BY <2>1
    <3>2. QED
      BY <3>1
  <2>4. h \in [0..m + 1 -> T]
    BY <2>3
  <2>5. ASSUME NEW n \in 0..m + 1
        PROVE  h[n] = IF n = 0 THEN base ELSE step[n][h[n - 1]]
    <3>1. CASE n = 0
      <4>1. g[0] = base
        <5>1. 0 \in 0..m
          OBVIOUS
        <5>2. QED
          BY <2>2, <5>1 DEF Defined
      <4>2. QED
        BY <3>1, <4>1
    <3>2. CASE n \in 1..m
      <4>1. g[n] = step[n][g[n - 1]]
        <5>1. n \in 0..m /\ n # 0
          BY <3>2
        <5>2. QED
          BY <2>2, <5>1 DEF Defined
      <4>2. h[n] = g[n] /\ h[n - 1] = g[n - 1] /\ n # 0
        BY <3>2
      <4>3. QED
        BY <4>1, <4>2
    <3>3. CASE n = m + 1
      <4>1. h[m + 1] = step[m + 1][g[m]] /\ h[m] = g[m]
        OBVIOUS
      <4>2. n - 1 = m /\ n # 0
        BY <3>3
      <4>3. QED
        BY <3>3, <4>1, <4>2
    <3>4. QED
      BY <3>1, <3>2, <3>3
  <2>6. QED
    BY <2>4, <2>5
<1>3. N \in S
  <2> HIDE DEF S
  <2>1. QED
    BY <1>1, <1>2, SetInduction
<1>4. PICK f \in [0..N -> T] : Defined(N, f)
  BY <1>3
<1>5. f[0] = base
  <2>1. 0 \in 0..N
    OBVIOUS
  <2>2. QED
    BY <1>4, <2>1 DEF Defined
<1>6. ASSUME NEW n \in 1..N PROVE f[n] = step[n][f[n - 1]]
  <2>1. n \in 0..N /\ n # 0
    OBVIOUS
  <2>2. QED
    BY <1>4, <2>1 DEF Defined
<1>7. QED
  BY <1>5, <1>6

=============================================================================
