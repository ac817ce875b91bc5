----------------------------- MODULE Induction -----------------------------
(***************************************************************************)
(* Induction over the numbers up to a bound, and what is defined by        *)
(* recursion up to a bound.  The induction theorems of the library take    *)
(* an operator, which the provers cannot instantiate; these take a set.    *)
(***************************************************************************)
EXTENDS Integers, TLAPS, FiniteSetTheorems, WellFoundedInduction

(* A set of numbers has a least one: the intervals below its members are   *)
(* finite sets, and those are well founded by inclusion.                   *)
LEMMA LeastNumber ==
    ASSUME NEW T \in SUBSET Nat, T # {}
    PROVE  \E m \in T : \A k \in T : m <= k
<1>. DEFINE R == StrictSubsetOrdering(Nat)
            U == {0..(m - 1) : m \in T}
<1>1. IsWellFoundedOn(R, FiniteSubsetsOf(Nat))
  BY FS_StrictSubsetOrderingWellFounded
<1>2. ASSUME NEW m \in T PROVE 0..(m - 1) \in FiniteSubsetsOf(Nat)
  <2>1. m - 1 \in Int
    OBVIOUS
  <2>2. IsFiniteSet(0..(m - 1))
    BY <2>1, FS_Interval
  <2>. QED
    BY <2>2 DEF FiniteSubsetsOf
<1>6. U \subseteq FiniteSubsetsOf(Nat) /\ U # {}
  BY <1>2
<1>. HIDE DEF R, U
<1>3. \E x \in U : \A y \in U : ~ (<<y, x>> \in R)
  BY <1>1, <1>6, WFMin
<1>4. PICK m \in T : \A k \in T : ~(<<0..(k - 1), 0..(m - 1)>> \in R)
  BY <1>3 DEF U
<1>5. ASSUME NEW k \in T, k < m PROVE FALSE
  <2>1. 0..(k - 1) \subseteq 0..(m - 1) /\ 0..(k - 1) # 0..(m - 1)
    <3>1. k \in 0..(m - 1) /\ k \notin 0..(k - 1)
      BY <1>5
    <3>. QED
      BY <1>5, <3>1
  <2>. QED
    BY <1>4, <2>1, <1>2 DEF R, StrictSubsetOrdering, FiniteSubsetsOf
<1>. QED
  BY <1>5

(* Induction up to a bound, over the set of the numbers that have the      *)
(* property.                                                               *)
LEMMA InductionTo ==
    ASSUME NEW n \in Nat, NEW T, 0 \in T, \A k \in 0..(n - 1) : k \in T => k + 1 \in T
    PROVE  \A k \in 0..n : k \in T
<1>. DEFINE F == {k \in 0..n : k \notin T}
<1>1. ASSUME F # {} PROVE FALSE
  <2>1. F \in SUBSET Nat
    OBVIOUS
  <2>2. PICK m \in F : \A k \in F : m <= k
    BY <1>1, <2>1, LeastNumber
  <2>3. m # 0 /\ m \in 0..n /\ m \notin T
    OBVIOUS
  <2>4. m - 1 \in 0..(n - 1) /\ m - 1 \in 0..n /\ ~(m <= m - 1) /\ (m - 1) + 1 = m
    BY <2>3
  <2>5. m - 1 \in T
    BY <2>2, <2>4
  <2>. QED
    BY <2>3, <2>4, <2>5
<1>. QED
  BY <1>1

(* There is a function on 0..n that starts with base and goes on by G. *)
Recursive(n, V, base, G) ==
    \E h \in [0..n -> V] : h[0] = base /\ \A k \in 1..n : h[k] = G[k][h[k - 1]]

(* A function that is defined by recursion up to a bound exists. *)
LEMMA Recursion ==
    ASSUME NEW n \in Nat, NEW V, NEW base \in V, NEW G \in [1..n -> [V -> V]]
    PROVE  Recursive(n, V, base, G)
<1>. DEFINE Good(m) == \E h \in [0..m -> V] :
                         h[0] = base /\ \A k \in 1..m : h[k] = G[k][h[k - 1]]
            T == {m \in 0..n : Good(m)}
<1>1. 0 \in T
  <2>. DEFINE h0 == [k \in 0..0 |-> base]
  <2>1. h0 \in [0..0 -> V] /\ h0[0] = base
    OBVIOUS
  <2>2. \A k \in 1..0 : h0[k] = G[k][h0[k - 1]]
    OBVIOUS
  <2>. HIDE DEF h0
  <2>3. Good(0)
    BY <2>1, <2>2
  <2>. QED
    BY <2>3
<1>2. ASSUME NEW m \in 0..(n - 1), m \in T PROVE m + 1 \in T
  <2>1. PICK h \in [0..m -> V] : h[0] = base /\ \A k \in 1..m : h[k] = G[k][h[k - 1]]
    BY <1>2
  <2>. DEFINE new == G[m + 1][h[m]]
              h2 == [k \in 0..(m + 1) |-> IF k = m + 1 THEN new ELSE h[k]]
  <2>2. new \in V
    <3>1. h[m] \in V /\ m + 1 \in 1..n
      OBVIOUS
    <3>. QED
      BY <3>1
  <2>. HIDE DEF new
  <2>3. h2 \in [0..(m + 1) -> V] /\ h2[0] = base
    BY <2>1, <2>2
  <2>4. ASSUME NEW k \in 1..(m + 1) PROVE h2[k] = G[k][h2[k - 1]]
    <3>1. CASE k = m + 1
      <4>1. h2[k] = new /\ h2[k - 1] = h[m]
        BY <3>1
      <4>. QED
        BY <3>1, <4>1 DEF new
    <3>2. CASE k # m + 1
      <4>1. k \in 1..m /\ h2[k] = h[k] /\ h2[k - 1] = h[k - 1]
        BY <3>2
      <4>. QED
        BY <2>1, <4>1
    <3>. QED
      BY <3>1, <3>2
  <2>. HIDE DEF h2
  <2>5. Good(m + 1)
    BY <2>3, <2>4
  <2>. QED
    BY SMTT(30), <2>5
<1>3. n \in T
  <2>1. \A k \in 0..(n - 1) : k \in T => k + 1 \in T
    BY <1>2
  <2>. HIDE DEF T
  <2>2. \A k \in 0..n : k \in T
    BY <1>1, <2>1, InductionTo
  <2>. QED
    BY <2>2
<1>. QED
  BY <1>3 DEF Recursive
=============================================================================
