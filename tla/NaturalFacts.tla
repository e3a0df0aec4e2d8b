---------------------------- MODULE NaturalFacts ----------------------------
(***************************************************************************)
(* What several proofs need of the natural numbers.                        *)
(***************************************************************************)
EXTENDS Integers, FiniteSets, FiniteSetTheorems, WellFoundedInduction, TLAPS

(* A non-empty set of natural numbers has a least element.                 *)
LEMMA LeastExists ==
  ASSUME NEW K \in SUBSET Nat, K # {}
  PROVE  \E k \in K : \A j \in K : k <= j
<1> DEFINE R == StrictSubsetOrdering(Nat)
           T == {1..k : k \in K}
<1>1. T \subseteq FiniteSubsetsOf(Nat) /\ T # {}
  <2>1. \A k \in K : IsFiniteSet(1..k)
    BY FS_Interval
  <2>2. \A k \in K : 1..k \in SUBSET Nat
    OBVIOUS
  <2> QED
    BY <2>1, <2>2, Zenon DEF FiniteSubsetsOf
<1>2. IsWellFoundedOn(R, FiniteSubsetsOf(Nat))
  BY FS_StrictSubsetOrderingWellFounded
<1>3. PICK x \in T : \A y \in T : ~(<<y, x>> \in R)
  <2> HIDE DEF T, R
  <2> QED
    BY <1>1, <1>2, WFMin
<1>4. PICK k \in K : x = 1..k
  OBVIOUS
<1>5. ASSUME NEW j \in K, j < k PROVE FALSE
  <2>1. 1..j \in SUBSET (1..k) /\ 1..j # 1..k /\ 1..j \in SUBSET Nat /\ 1..k \in SUBSET Nat
    BY <1>5
  <2>2. <<1..j, 1..k>> \in R
    BY <2>1 DEF StrictSubsetOrdering
  <2> QED
    BY <2>2, <1>3, <1>4
<1> QED
  BY <1>5

(* Of the numbers up to a bound that a set has there is a greatest.        *)
LEMMA GreatestExists ==
  ASSUME NEW B \in Nat, NEW K \in SUBSET (0 .. B), K # {}
  PROVE  \E k \in K : \A j \in K : j <= k
<1> DEFINE L == {B - k : k \in K}
<1>1. L \in SUBSET Nat /\ L # {}
  <2>1. \A k \in K : B - k \in Nat
    OBVIOUS
  <2>2. PICK k \in K : TRUE
    OBVIOUS
  <2>3. B - k \in L
    OBVIOUS
  <2> QED
    BY <2>1, <2>3, Zenon
<1>2. PICK l \in L : \A m \in L : l <= m
  <2> HIDE DEF L
  <2> QED
    BY <1>1, LeastExists
<1>3. PICK k \in K : l = B - k
  BY DEF L
<1>4. ASSUME NEW j \in K PROVE j <= k
  <2>1. B - j \in L
    OBVIOUS
  <2>2. B - k <= B - j
    BY <2>1, <1>2, <1>3
  <2> QED
    BY <2>2
<1> QED
  BY <1>4

(* Induction over a set of natural numbers.                                *)
LEMMA NatSetInduction ==
  ASSUME NEW T \in SUBSET Nat, 0 \in T, \A n \in T : n + 1 \in T
  PROVE  T = Nat
<1> SUFFICES ASSUME T # Nat PROVE FALSE
  OBVIOUS
<1>1. PICK k \in Nat \ T : \A j \in Nat \ T : k <= j
  BY LeastExists
<1>2. k # 0 /\ k - 1 \in Nat
  OBVIOUS
<1>3. k - 1 \in T
  BY <1>1, <1>2
<1> QED
  BY <1>1, <1>2, <1>3

(* A step function on a set has a sequence of states from every start; so  *)
(* a recursive function that takes such steps is what its equation says.   *)
LEMMA SequenceExists ==
  ASSUME NEW S, NEW s0 \in S, NEW F \in [S -> S]
  PROVE  \E f \in [Nat -> S] : f[0] = s0 /\ \A n \in Nat : f[n + 1] = F[f[n]]
<1> DEFINE Starts(g, n) == /\ g \in [0..n -> S] /\ g[0] = s0
                           /\ \A i \in 0..(n - 1) : g[i + 1] = F[g[i]]
           T == {n \in Nat : \E g : Starts(g, n)}
<1>1. T = Nat
  <2>1. 0 \in T
    <3>1. Starts([i \in 0..0 |-> s0], 0)
      OBVIOUS
    <3> QED
      BY <3>1
  <2>2. ASSUME NEW n \in T PROVE n + 1 \in T
    <3>1. PICK g : Starts(g, n)
      OBVIOUS
    <3> DEFINE h == [i \in 0..(n + 1) |-> IF i = n + 1 THEN F[g[n]] ELSE g[i]]
    <3>2. Starts(h, n + 1)
      BY <3>1
    <3> HIDE DEF Starts, h
    <3> QED
      BY <3>2
  <2> QED
    <3> HIDE DEF T
    <3> QED
      BY <2>1, <2>2, NatSetInduction DEF T
<1>2. ASSUME NEW m \in Nat, NEW n \in Nat, NEW g, NEW h, m <= n, Starts(g, m), Starts(h, n)
      PROVE  \A i \in 0..m : g[i] = h[i]
  <2> DEFINE U == {i \in Nat : i <= m => g[i] = h[i]}
  <2>1. 0 \in U
    BY <1>2
  <2>2. ASSUME NEW i \in U PROVE i + 1 \in U
    BY <1>2
  <2>3. U = Nat
    <3> HIDE DEF U
    <3> QED
      BY <2>1, <2>2, NatSetInduction DEF U
  <2> QED
    BY <2>3
<1> DEFINE First(n) == CHOOSE g : Starts(g, n)
           f == [n \in Nat |-> First(n)[n]]
<1>3. \A n \in Nat : Starts(First(n), n)
  BY <1>1
<1>4. f \in [Nat -> S]
  BY <1>3
<1>5. f[0] = s0
  BY <1>3
<1>6. ASSUME NEW n \in Nat PROVE f[n + 1] = F[f[n]]
  <2>1. First(n)[n] = First(n + 1)[n]
    <3> HIDE DEF Starts, First
    <3> QED
      BY <1>2, <1>3
  <2>2. First(n + 1)[n + 1] = F[First(n + 1)[n]]
    <3> HIDE DEF First
    <3>1. Starts(First(n + 1), n + 1)
      BY <1>3
    <3> QED
      BY <3>1
  <2> QED
    BY <2>1, <2>2
<1> QED
  BY <1>4, <1>5, <1>6
=============================================================================
