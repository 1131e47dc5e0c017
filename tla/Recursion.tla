----------------------------- MODULE Recursion -----------------------------
(***************************************************************************)
(* Induction over the natural numbers, with a set in the place of a        *)
(* predicate, and functions that are defined by what each value makes of   *)
(* the one before it.                                                      *)
(***************************************************************************)
EXTENDS Integers, TLAPS, WellFoundedInduction

\* A set of natural numbers that is not empty has a least one.
LEMMA LeastExists ==
    ASSUME NEW S \in SUBSET Nat, S # {}
    PROVE  \E m \in S : \A y \in S : m <= y
<1>1. \A R, T : IsWellFoundedOn(R, Nat) /\ T \subseteq Nat /\ T # {}
                  => \E x \in T : \A y \in T : <<y, x>> \notin R
  BY WFMin
<1>2. PICK R : R = OpToRel(<, Nat)
  OBVIOUS
<1>3. IsWellFoundedOn(R, Nat)
  BY <1>2, NatLessThanWellFounded
<1>4. R = {ss \in Nat \X Nat : ss[1] < ss[2]}
  BY <1>2 DEF OpToRel
<1>5. PICK x \in S : \A y \in S : <<y, x>> \notin R
  BY <1>1, <1>3
<1>6. ASSUME NEW y \in S
      PROVE  x <= y
  <2>1. PICK p : p = <<y, x>>
    OBVIOUS
  <2>2. p \in Nat \X Nat /\ p[1] = y /\ p[2] = x
    BY <2>1
  <2>3. ~(p[1] < p[2])
    BY <1>4, <1>5, <2>1, <2>2
  <2> QED
    BY <2>2, <2>3
<1> QED
  BY <1>6

\* Induction, with a set in the place of a predicate.
LEMMA Induction ==
    ASSUME NEW S, 0 \in S, \A n \in Nat : n \in S => n + 1 \in S
    PROVE  \A n \in Nat : n \in S
<1>1. PICK T \in SUBSET Nat : T = {n \in Nat : n \notin S}
  OBVIOUS
<1>2. ASSUME T # {}
      PROVE  FALSE
  <2>1. PICK m \in T : \A y \in T : m <= y
    BY <1>2, LeastExists
  <2>2. m \in Nat /\ m # 0 /\ m \notin S
    BY <1>1
  <2>3. m - 1 \in Nat /\ m - 1 \notin T
    BY <2>1, <2>2
  <2>4. m - 1 \in S
    BY <1>1, <2>3
  <2>5. (m - 1) + 1 \in S
    BY <2>3, <2>4
  <2> QED
    BY <2>2, <2>5
<1> QED
  BY <1>1, <1>2

\* A set of natural numbers with a bound that is not empty has a largest one.
LEMMA LargestExists ==
    ASSUME NEW S \in SUBSET Nat, S # {}, NEW b \in Nat, \A y \in S : y <= b
    PROVE  \E m \in S : \A y \in S : y <= m
<1>1. PICK T \in SUBSET Nat : T = {n \in Nat : \A y \in S : y <= n}
  OBVIOUS
<1>2. PICK m \in T : \A n \in T : m <= n
  BY <1>1, LeastExists
<1>3. m \in Nat /\ \A y \in S : y <= m
  BY <1>1
<1>4. ASSUME m \notin S
      PROVE  FALSE
  <2>1. \A y \in S : y <= m - 1 /\ 0 <= y
    BY <1>3, <1>4
  <2>2. m - 1 \in Nat
    <3>1. PICK z : z \in S
      OBVIOUS
    <3>2. z \in Nat /\ z <= m - 1 /\ 0 <= z
      BY <2>1, <3>1
    <3> QED
      BY <1>3, <3>2
  <2>3. m - 1 \in T
    BY <1>1, <2>1, <2>2
  <2> QED
    BY <1>2, <1>3, <2>3
<1> QED
  BY <1>3, <1>4

\* The values of g are what step makes, one after the other, of `base`.
Iterates(g, V, base, n, step) ==
    g \in [0..n -> V] /\ g[0] = base /\ \A i \in 1..n : g[i] = step[i][g[i - 1]]

\* A function may be defined by what each value makes of the one before.
LEMMA RecursiveFunction ==
    ASSUME NEW V, NEW base \in V, NEW n \in Nat,
           NEW step \in [1..n -> [V -> V]]
    PROVE  \E g : Iterates(g, V, base, n, step)
<1> DEFINE Right(m, g) == g[0] = base /\ \A i \in 1..m : g[i] = step[i][g[i - 1]]
<1>1. PICK S : S = {m \in Nat : m <= n => \E g \in [0..m -> V] : Right(m, g)}
  OBVIOUS
<1>2. 0 \in S
  <2>1. PICK g : g = [i \in 0..0 |-> base]
    OBVIOUS
  <2>2. g \in [0..0 -> V] /\ g[0] = base
    BY <2>1
  <2>3. Right(0, g)
    BY <2>2
  <2> QED
    BY <1>1, <2>2, <2>3
<1>3. ASSUME NEW m \in Nat, m \in S
      PROVE  m + 1 \in S
  <2>1. CASE m + 1 <= n
    <3>1. PICK g \in [0..m -> V] : Right(m, g)
      BY <1>1, <1>3, <2>1
    <3>2. PICK v : v = step[m + 1][g[m]]
      OBVIOUS
    <3>3. v \in V
      BY <2>1, <3>2
    <3>4. PICK h : h = [i \in 0..(m + 1) |-> IF i = m + 1 THEN v ELSE g[i]]
      OBVIOUS
    <3>5. /\ h \in [0..(m + 1) -> V] /\ h[m + 1] = v
          /\ \A i \in 0..m : h[i] = g[i]
      BY <3>3, <3>4
    <3>6. h[0] = base
      BY <3>1, <3>5
    <3>7. ASSUME NEW i \in 1..(m + 1)
          PROVE  h[i] = step[i][h[i - 1]]
      <4>1. CASE i = m + 1
        <5>1. h[i - 1] = g[m]
          BY <3>5, <4>1
        <5> QED
          BY <3>2, <3>5, <4>1, <5>1
      <4>2. CASE i # m + 1
        <5>1. i \in 1..m /\ i - 1 \in 0..m /\ i \in 0..m
          BY <4>2
        <5>2. g[i] = step[i][g[i - 1]]
          BY <3>1, <5>1
        <5> QED
          BY <3>5, <5>1, <5>2
      <4> QED
        BY <4>1, <4>2
    <3>8. Right(m + 1, h)
      BY <3>6, <3>7
    <3> HIDE DEF Right
    <3> QED
      BY <1>1, <3>5, <3>8
  <2>2. CASE ~(m + 1 <= n)
    BY <1>1, <2>2
  <2> QED
    BY <2>1, <2>2
<1>4. n \in S
  BY <1>2, <1>3, Induction
<1>5. PICK g \in [0..n -> V] : Right(n, g)
  BY <1>1, <1>4
<1> QED
  BY <1>5 DEF Iterates

\* There is only one such function.
LEMMA RecursionUnique ==
    ASSUME NEW n \in Nat, NEW f, NEW g, NEW step, f[0] = g[0],
           \A i \in 1..n : f[i] = step[i][f[i - 1]],
           \A i \in 1..n : g[i] = step[i][g[i - 1]]
    PROVE  \A i \in 0..n : f[i] = g[i]
<1>1. PICK S : S = {m \in Nat : m <= n => f[m] = g[m]}
  OBVIOUS
<1>2. 0 \in S
  BY <1>1
<1>3. ASSUME NEW m \in Nat, m \in S
      PROVE  m + 1 \in S
  <2>1. CASE m + 1 <= n
    <3>1. m + 1 \in 1..n /\ (m + 1) - 1 = m /\ f[m] = g[m]
      BY <1>1, <1>3, <2>1
    <3> QED
      BY <1>1, <3>1
  <2>2. CASE ~(m + 1 <= n)
    BY <1>1, <2>2
  <2> QED
    BY <2>1, <2>2
<1>4. \A m \in Nat : m \in S
  BY <1>2, <1>3, Induction
<1> QED
  BY <1>1, <1>4

=============================================================================
