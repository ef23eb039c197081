--------------------------- MODULE InductionLemmas ---------------------------
(***************************************************************************)
(* Induction over the natural numbers without an operator as parameter,    *)
(* and what follows from it for functions defined by recursion: the facts  *)
(* about numbers that the proofs of several components need.               *)
(***************************************************************************)
EXTENDS Integers, FiniteSets, FiniteSetTheorems, WellFoundedInduction, TLAPS

\* A set of natural numbers that is not empty has a least element.
LEMMA Least ==
    ASSUME NEW T \in SUBSET Nat, T # {}
    PROVE  \E n \in T : \A i \in T : n <= i
<1> DEFINE U == {0 .. n : n \in T}
<1>1. U # {} /\ U \subseteq FiniteSubsetsOf(Nat)
  <2>1. \A n \in T : IsFiniteSet(0 .. n) /\ 0 .. n \subseteq Nat
    BY FS_Interval
  <2> QED BY <2>1 DEF FiniteSubsetsOf
<1>2. PICK x \in U : \A y \in U : ~ (<<y, x>> \in StrictSubsetOrdering(Nat))
  BY <1>1, FS_StrictSubsetOrderingWellFounded, WFMin
<1>3. PICK n \in T : x = 0 .. n
  OBVIOUS
<1>4. ASSUME NEW i \in T PROVE n <= i
  <2>1. SUFFICES ASSUME i < n PROVE FALSE
    BY <1>3
  <2>2. 0 .. i \in U
    OBVIOUS
  <2>3. 0 .. i \subseteq 0 .. n
    BY <1>3, <2>1
  <2>4. n \in 0 .. n /\ n \notin 0 .. i
    BY <1>3, <2>1
  <2>5. <<0 .. i, 0 .. n>> \in StrictSubsetOrdering(Nat)
    <3>1. 0 .. i \in SUBSET Nat /\ 0 .. n \in SUBSET Nat
      BY <1>3
    <3> QED BY <2>3, <2>4, <3>1 DEF StrictSubsetOrdering
  <2> QED BY <1>2, <1>3, <2>2, <2>5
<1> QED BY <1>3, <1>4

\* A set that holds 0, and with a number below n the next one, holds all up to n.
LEMMA Induction ==
    ASSUME NEW n \in Nat, NEW S, 0 \in S, \A k \in 0 .. n - 1 : k \in S => k + 1 \in S
    PROVE  \A k \in 0 .. n : k \in S
<1> DEFINE T == (0 .. n) \ S
<1> SUFFICES ASSUME T # {} PROVE FALSE
  OBVIOUS
<1>1. PICK k \in T : \A i \in T : k <= i
  <2>1. T \in SUBSET Nat
    OBVIOUS
  <2> HIDE DEF T
  <2> QED BY <2>1, Least
<1>2. k \in 0 .. n /\ k # 0
  BY <1>1
<1>3. k - 1 \in 0 .. n - 1 /\ k - 1 \in S /\ (k - 1) + 1 = k
  BY <1>1, <1>2
<1> QED BY <1>1, <1>3

\* f goes from x on in steps within D.
Iterates(f, n, D, x, step) ==
    f \in [0 .. n -> D] /\ f[0] = x /\ \A k \in 1 .. n : f[k] = step[k][f[k - 1]]

\* Steps can be put one after the other.
LEMMA Recursion ==
    ASSUME NEW n \in Nat, NEW D, NEW x \in D, NEW step \in [1 .. n -> [D -> D]]
    PROVE  \E f : Iterates(f, n, D, x, step)
<1> DEFINE Solves(m, f) == f[0] = x /\ \A k \in 1 .. m : f[k] = step[k][f[k - 1]]
           S == {m \in 0 .. n : \E f \in [0 .. m -> D] : Solves(m, f)}
<1>1. 0 \in S
  <2> DEFINE f == [k \in 0 .. 0 |-> x]
  <2>1. f \in [0 .. 0 -> D] /\ Solves(0, f)
    OBVIOUS
  <2> HIDE DEF f, Solves
  <2>2. \E h \in [0 .. 0 -> D] : Solves(0, h)
    BY <2>1
  <2> QED BY <2>2
<1>2. ASSUME NEW m \in 0 .. n - 1, m \in S
      PROVE  m + 1 \in S
  <2>1. PICK f \in [0 .. m -> D] : Solves(m, f)
    BY <1>2
  <2> DEFINE g == [k \in 0 .. m + 1 |-> IF k <= m THEN f[k] ELSE step[m + 1][f[m]]]
  <2>2. m + 1 \in 1 .. n /\ f[m] \in D
    OBVIOUS
  <2>3. g \in [0 .. m + 1 -> D]
    BY <2>2
  <2>4. g[0] = x
    BY <2>1
  <2>5. ASSUME NEW k \in 1 .. m + 1
        PROVE  g[k] = step[k][g[k - 1]]
    <3>1. CASE k \in 1 .. m
      <4>1. k - 1 \in 0 .. m /\ g[k] = f[k] /\ g[k - 1] = f[k - 1]
        BY <3>1
      <4> QED BY <2>1, <3>1, <4>1
    <3>2. CASE k = m + 1
      <4>1. m \in 0 .. m + 1 /\ g[m] = f[m] /\ g[m + 1] = step[m + 1][f[m]]
        OBVIOUS
      <4> QED BY <3>2, <4>1
    <3> QED BY <3>1, <3>2
  <2>6. Solves(m + 1, g)
    BY <2>4, <2>5
  <2> HIDE DEF g, Solves
  <2>7. \E h \in [0 .. m + 1 -> D] : Solves(m + 1, h)
    BY <2>3, <2>6
  <2> QED BY <2>2, <2>7
<1> HIDE DEF Solves
<1>3. n \in S
  <2>1. \A k \in 0 .. n : k \in S
    <3> HIDE DEF S
    <3> QED BY <1>1, <1>2, Induction
  <2> QED BY <2>1
<1> QED BY <1>3 DEF Solves, Iterates

\* What steps from 0 to n lead to stays in D, if no step leaves it.
LEMMA Stays ==
    ASSUME NEW n \in Nat, NEW D, NEW f, f[0] \in D,
           \A k \in 1 .. n : f[k - 1] \in D => f[k] \in D
    PROVE  \A k \in 0 .. n : f[k] \in D
<1> DEFINE S == {k \in 0 .. n : f[k] \in D}
<1>1. 0 \in S
  OBVIOUS
<1>2. ASSUME NEW k \in 0 .. n - 1, k \in S
      PROVE  k + 1 \in S
  <2>1. k + 1 \in 1 .. n /\ (k + 1) - 1 = k
    OBVIOUS
  <2> QED BY <1>2, <2>1
<1>3. \A k \in 0 .. n : k \in S
  <2> HIDE DEF S
  <2> QED BY <1>1, <1>2, Induction
<1> QED BY <1>3

\* The first number between a and b in S, or b if there is none.
LEMMA First ==
    ASSUME NEW a \in Nat, NEW b \in Nat, a <= b, NEW S
    PROVE  \E k \in a .. b : (k = b \/ k \in S) /\ \A j \in a .. k - 1 : j \notin S
<1> DEFINE T == {k \in a .. b : k = b \/ k \in S}
<1>1. T \in SUBSET Nat /\ T # {}
  OBVIOUS
<1>2. PICK k \in T : \A i \in T : k <= i
  <2> HIDE DEF T
  <2> QED BY <1>1, Least
<1>3. ASSUME NEW j \in a .. k - 1, j \in S
      PROVE  FALSE
  <2>1. j \in T
    BY <1>3
  <2> QED BY <1>2, <2>1
<1> QED BY <1>2, <1>3
=============================================================================
