--------------------------- MODULE ReclaimerProofs ---------------------------
(***************************************************************************)
(* What is proved of the CPU staging reclaimer (module Reclaimer), for any *)
(* number of clients, batches and images:                                  *)
(*                                                                         *)
(*   EveryItemIsAccountedFor   an image is in exactly one place, the two   *)
(*                             counters say how many are where, and the    *)
(*                             destructor leaves none behind               *)
(*   WaitingMeansFreed         drain_and_wait and wait_idle return only    *)
(*                             when what they wait for is destroyed        *)
(*                                                                         *)
(* Both follow from ReclaimerInv.  Its core, ItemsOK, says where the items *)
(* of a batch are; what makes it inductive is who may have them: the one   *)
(* client that activated the batch (CarrierOK), the worker only in a round *)
(* (WorkerOK) and only after they were published (BatchOK), and the        *)
(* destructor, which publishes what nobody activated (DestructorOK).       *)
(*                                                                         *)
(* The counters are sums over batches and clients (MapThenSumSet), so the  *)
(* module begins with what is needed of sums: they exist, do not depend on *)
(* the order, add up, and change with one summand.  The inductions go over *)
(* the cardinality of subsets.                                             *)
(***************************************************************************)
EXTENDS Reclaimer, NaturalFacts

-----------------------------------------------------------------------------
(* Sums over finite sets: Sum(g, S) is what MapThenSumSet makes of g, and  *)
(* Sums(f, g, S) says that f tabulates the sums over the subsets of S.     *)
Sum(g, S) == MapThenSumSet(LAMBDA b : g[b], S)
Pick(s) == CHOOSE x \in s : TRUE
Sums(f, g, S) == f = [s \in SUBSET S |-> IF s = {} THEN 0 ELSE g[Pick(s)] + f[s \ {Pick(s)}]]

LEMMA SumIsChosen == \A g, S : Sum(g, S) = (CHOOSE f : Sums(f, g, S))[S]
  BY DEF Sum, MapThenSumSet, MapThenFoldSet, Sums, Pick

(* Taking one element away.                                                *)
LEMMA OneLess ==
  ASSUME NEW s, IsFiniteSet(s), NEW x \in s
  PROVE  /\ IsFiniteSet(s \ {x}) /\ Cardinality(s) \in Nat \ {0}
         /\ Cardinality(s \ {x}) = Cardinality(s) - 1
<1>1. IsFiniteSet(s \ {x}) /\ Cardinality(s \ {x}) = Cardinality(s) - 1
  BY FS_RemoveElement
<1>2. Cardinality(s) \in Nat /\ Cardinality(s) # 0
  BY FS_CardinalityType, FS_EmptySet
<1> QED
  BY <1>1, <1>2

LEMMA SumsExist ==
  ASSUME NEW S, IsFiniteSet(S), NEW g, \A x \in S : g[x] \in Int
  PROVE  \E f \in [SUBSET S -> Int] : Sums(f, g, S)
<1> DEFINE Step(h) == [s \in SUBSET S |-> IF s = {} THEN 0 ELSE g[Pick(s)] + h[s \ {Pick(s)}]]
           H == [SUBSET S -> Int]
           F == [h \in H |-> Step(h)]
           zero == [s \in SUBSET S |-> 0]
<1>1. \A s \in SUBSET S : s # {} => Pick(s) \in s /\ Pick(s) \in S /\ s \ {Pick(s)} \in SUBSET S
  BY DEF Pick
<1>2. F \in [H -> H] /\ zero \in H
  BY <1>1
<1>3. \E h \in [Nat -> H] : h[0] = zero /\ \A n \in Nat : h[n + 1] = F[h[n]]
  <2> HIDE DEF F, H, zero
  <2> QED
    BY ONLY <1>2, SequenceExists
<1> PICK h \in [Nat -> H] : h[0] = zero /\ \A n \in Nat : h[n + 1] = F[h[n]]
  BY <1>3
<1>4. \A n \in Nat, s \in SUBSET S :
        h[n + 1][s] = IF s = {} THEN 0 ELSE g[Pick(s)] + h[n][s \ {Pick(s)}]
  <2>1. ASSUME NEW n \in Nat PROVE h[n + 1] = Step(h[n])
    <3>1. h[n] \in H
      OBVIOUS
    <3>2. h[n + 1] = F[h[n]]
      OBVIOUS
    <3> HIDE DEF H, Step
    <3> QED
      BY <3>1, <3>2
  <2>2. \A q : \A s \in SUBSET S : Step(q)[s] = IF s = {} THEN 0 ELSE g[Pick(s)] + q[s \ {Pick(s)}]
    OBVIOUS
  <2> SUFFICES ASSUME NEW n \in Nat, NEW s \in SUBSET S
               PROVE  h[n + 1][s] = IF s = {} THEN 0 ELSE g[Pick(s)] + h[n][s \ {Pick(s)}]
    OBVIOUS
  <2>3. h[n + 1] = Step(h[n])
    BY <2>1
  <2> DEFINE q == h[n]
  <2>4. Step(q)[s] = IF s = {} THEN 0 ELSE g[Pick(s)] + q[s \ {Pick(s)}]
    BY <2>2
  <2> HIDE DEF Step
  <2> QED
    BY <2>3, <2>4
<1>5. \A s \in SUBSET S : IsFiniteSet(s) /\ Cardinality(s) \in Nat
  BY FS_Subset, FS_CardinalityType
<1> DEFINE T == {n \in Nat : \A s \in SUBSET S : Cardinality(s) < n => h[n + 1][s] = h[n][s]}
<1>6. T = Nat
  <2>1. 0 \in T
    BY <1>5
  <2>2. ASSUME NEW n \in T PROVE n + 1 \in T
    <3> SUFFICES ASSUME NEW s \in SUBSET S, Cardinality(s) < n + 1
                 PROVE  h[n + 1 + 1][s] = h[n + 1][s]
      OBVIOUS
    <3>1. CASE s = {}
      <4>1. \A m \in Nat : h[m + 1][s] = 0
        BY <1>4, <3>1
      <4> QED
        BY <4>1, n \in Nat, n + 1 \in Nat
    <3>2. CASE s # {}
      <4> DEFINE t == s \ {Pick(s)}
      <4>1. t \in SUBSET S /\ Cardinality(t) < n
        BY <1>1, <1>5, <3>2, OneLess
      <4>2. h[n + 1][t] = h[n][t]
        BY <4>1
      <4>3. h[n + 1 + 1][s] = g[Pick(s)] + h[n + 1][t] /\ h[n + 1][s] = g[Pick(s)] + h[n][t]
        BY <1>4, <3>2
      <4> QED
        BY <4>2, <4>3
    <3> QED
      BY <3>1, <3>2
  <2> HIDE DEF T
  <2>3. T \in SUBSET Nat
    BY DEF T
  <2> QED
    BY <2>1, <2>2, <2>3, NatSetInduction
<1> DEFINE n == Cardinality(S) + 1
           f == h[n]
<1>7. n \in Nat /\ \A s \in SUBSET S : Cardinality(s) < n
  BY <1>5, FS_Subset
<1>8. \A s \in SUBSET S : h[n + 1][s] = f[s]
  BY <1>6, <1>7
<1>9. f \in H
  BY <1>3, <1>7
<1>10. \A s \in SUBSET S : f[s] = IF s = {} THEN 0 ELSE g[Pick(s)] + f[s \ {Pick(s)}]
  <2> HIDE DEF n
  <2> QED
    BY <1>4, <1>7, <1>8
<1> HIDE DEF f
<1>11. Sums(f, g, S)
  BY <1>9, <1>10 DEF Sums
<1> QED
  BY <1>9, <1>11

(* Two tables of sums agree where both are defined.                        *)
LEMMA SumsAgree ==
  ASSUME NEW S, IsFiniteSet(S), NEW R \in SUBSET S, NEW g, NEW f, NEW h, Sums(f, g, S), Sums(h, g, R)
  PROVE  \A s \in SUBSET R : f[s] = h[s]
<1>1. \A s \in SUBSET R : /\ f[s] = IF s = {} THEN 0 ELSE g[Pick(s)] + f[s \ {Pick(s)}]
                          /\ h[s] = IF s = {} THEN 0 ELSE g[Pick(s)] + h[s \ {Pick(s)}]
  <2>1. \A s \in SUBSET R : s \in SUBSET S
    OBVIOUS
  <2> QED
    BY <2>1, Zenon DEF Sums
<1>2. \A s \in SUBSET R : IsFiniteSet(s) /\ Cardinality(s) \in Nat
  BY FS_Subset, FS_CardinalityType
<1> DEFINE T == {n \in Nat : \A s \in SUBSET R : Cardinality(s) = n => f[s] = h[s]}
<1>3. 0 \in T
  <2>1. \A s \in SUBSET R : Cardinality(s) = 0 => s = {}
    BY <1>2, FS_EmptySet
  <2> QED
    BY <1>1, <2>1
<1>4. ASSUME NEW n \in T PROVE n + 1 \in T
  <2> SUFFICES ASSUME NEW s \in SUBSET R, Cardinality(s) = n + 1 PROVE f[s] = h[s]
    OBVIOUS
  <2>1. s # {}
    BY FS_EmptySet
  <2> DEFINE t == s \ {Pick(s)}
  <2>2. Pick(s) \in s
    BY <2>1 DEF Pick
  <2>3. t \in SUBSET R /\ Cardinality(t) = n
    BY <1>2, <2>2, OneLess
  <2>4. f[t] = h[t]
    BY <2>3
  <2> QED
    BY <1>1, <2>1, <2>4
<1>5. T = Nat
  <2> HIDE DEF T
  <2>1. T \in SUBSET Nat
    BY DEF T
  <2> QED
    BY <1>3, <1>4, <2>1, NatSetInduction
<1> QED
  BY <1>2, <1>5

(* So a sum is what its first element adds to the sum of the others.       *)
LEMMA SumUnfolds ==
  ASSUME NEW S, IsFiniteSet(S), NEW g, \A x \in S : g[x] \in Int
  PROVE  /\ Sum(g, {}) = 0
         /\ Sum(g, S) \in Int
         /\ S # {} => /\ Pick(S) \in S
                      /\ Sum(g, S) = g[Pick(S)] + Sum(g, S \ {Pick(S)})
<1>1. ASSUME NEW R \in SUBSET S
      PROVE  \A f : Sums(f, g, S) => Sum(g, R) = f[R]
  <2> SUFFICES ASSUME NEW f, Sums(f, g, S) PROVE Sum(g, R) = f[R]
    OBVIOUS
  <2> DEFINE small == [s \in SUBSET R |-> f[s]]
             c == CHOOSE h : Sums(h, g, R)
  <2>1. Sums(small, g, R)
    <3>1. \A s \in SUBSET R : /\ s \in SUBSET S /\ s \ {Pick(s)} \in SUBSET R
                              /\ f[s] = IF s = {} THEN 0 ELSE g[Pick(s)] + f[s \ {Pick(s)}]
      <4>1. \A s \in SUBSET R : s \in SUBSET S /\ s \ {Pick(s)} \in SUBSET R
        OBVIOUS
      <4> QED
        BY <4>1, Zenon DEF Sums
    <3>2. \A s \in SUBSET R : small[s] = f[s] /\ small[s \ {Pick(s)}] = f[s \ {Pick(s)}]
      BY <3>1
    <3>3. small = [s \in SUBSET R |-> small[s]]
      OBVIOUS
    <3> HIDE DEF small
    <3> QED
      BY <3>1, <3>2, <3>3 DEF Sums
  <2>2. Sums(c, g, R)
    <3> HIDE DEF small
    <3> QED
      BY <2>1
  <2>3. Sum(g, R) = c[R]
    BY SumIsChosen
  <2> HIDE DEF c
  <2> QED
    BY <2>2, <2>3, SumsAgree
<1>2. PICK f \in [SUBSET S -> Int] : Sums(f, g, S)
  BY SumsExist
<1>3. \A R \in SUBSET S : Sum(g, R) = f[R]
  BY <1>1, <1>2
<1>4. f[{}] = 0 /\ (S # {} => f[S] = g[Pick(S)] + f[S \ {Pick(S)}])
  <2>1. {} \in SUBSET S /\ S \in SUBSET S
    OBVIOUS
  <2> QED
    BY <1>2, <2>1, Zenon DEF Sums
<1>5. S # {} => Pick(S) \in S
  BY DEF Pick
<1>6. {} \in SUBSET S /\ S \in SUBSET S /\ S \ {Pick(S)} \in SUBSET S
  OBVIOUS
<1> QED
  BY <1>2, <1>3, <1>4, <1>5, <1>6

(* Induction over the subsets of a finite set.                             *)
LEMMA SubsetInduction ==
  ASSUME NEW S, IsFiniteSet(S), NEW P, {} \in P,
         \A s \in SUBSET S : s # {} /\ (\A x \in s : s \ {x} \in P) => s \in P
  PROVE  \A s \in SUBSET S : s \in P
<1> DEFINE T == {n \in Nat : \A s \in SUBSET S : Cardinality(s) = n => s \in P}
<1>1. \A s \in SUBSET S : IsFiniteSet(s) /\ Cardinality(s) \in Nat
  BY FS_Subset, FS_CardinalityType
<1>2. 0 \in T
  <2>1. \A s \in SUBSET S : Cardinality(s) = 0 => s = {}
    BY <1>1, FS_EmptySet
  <2> QED
    BY <2>1
<1>3. ASSUME NEW n \in T PROVE n + 1 \in T
  <2> SUFFICES ASSUME NEW s \in SUBSET S, Cardinality(s) = n + 1 PROVE s \in P
    OBVIOUS
  <2>1. s # {}
    BY FS_EmptySet
  <2>2. ASSUME NEW x \in s PROVE s \ {x} \in P
    <3>1. s \ {x} \in SUBSET S /\ Cardinality(s \ {x}) = n
      BY <1>1, OneLess
    <3> QED
      BY <3>1
  <2> QED
    BY <2>1, <2>2
<1>4. T = Nat
  <2> HIDE DEF T
  <2>1. T \in SUBSET Nat
    BY DEF T
  <2> QED
    BY <1>2, <1>3, <2>1, NatSetInduction
<1> QED
  BY <1>1, <1>4

(* A sum does not depend on the order: any element may come first.         *)
LEMMA SumByAny ==
  ASSUME NEW S, IsFiniteSet(S), NEW g, \A x \in S : g[x] \in Int, NEW a \in S
  PROVE  Sum(g, S) = g[a] + Sum(g, S \ {a})
<1> DEFINE P == {s \in SUBSET S : \A x \in s : Sum(g, s) = g[x] + Sum(g, s \ {x})}
<1>1. {} \in P
  OBVIOUS
<1>2. ASSUME NEW s \in SUBSET S, s # {}, \A x \in s : s \ {x} \in P
      PROVE  s \in P
  <2> SUFFICES ASSUME NEW x \in s PROVE Sum(g, s) = g[x] + Sum(g, s \ {x})
    OBVIOUS
  <2> DEFINE y == Pick(s)
  <2>1. \A r \in SUBSET S : IsFiniteSet(r) /\ \A z \in r : g[z] \in Int
    BY FS_Subset
  <2>2. y \in s /\ Sum(g, s) = g[y] + Sum(g, s \ {y})
    BY <1>2, <2>1, SumUnfolds
  <2>3. CASE x = y
    BY <2>2, <2>3
  <2>4. CASE x # y
    <3>1. x \in s \ {y} /\ y \in s \ {x}
      BY <2>2, <2>4
    <3>2. /\ Sum(g, s \ {y}) = g[x] + Sum(g, (s \ {y}) \ {x})
          /\ Sum(g, s \ {x}) = g[y] + Sum(g, (s \ {x}) \ {y})
      BY <1>2, <2>2, <3>1
    <3>3. (s \ {y}) \ {x} = (s \ {x}) \ {y} /\ (s \ {y}) \ {x} \in SUBSET S
      OBVIOUS
    <3>4. Sum(g, (s \ {y}) \ {x}) \in Int /\ g[x] \in Int /\ g[y] \in Int
      <4> HIDE DEF y
      <4>1. Sum(g, (s \ {y}) \ {x}) \in Int
        BY <2>1, <3>3, SumUnfolds
      <4> QED
        BY <2>1, <2>2, <4>1
    <3> DEFINE both == Sum(g, (s \ {y}) \ {x})
               noX == Sum(g, s \ {x})
               noY == Sum(g, s \ {y})
    <3>5. noX = g[y] + both /\ noY = g[x] + both /\ Sum(g, s) = g[y] + noY
      BY <2>2, <3>2, <3>3
    <3>6. both \in Int
      BY <3>4
    <3> HIDE DEF y, both, noX, noY
    <3>7. Sum(g, s) = g[x] + noX
      BY <3>4, <3>5, <3>6
    <3> QED
      BY <3>7 DEF noX
  <2> QED
    BY <2>3, <2>4
<1> HIDE DEF P
<1>3. \A s \in SUBSET S : s \in P
  BY <1>1, <1>2, SubsetInduction
<1> QED
  BY <1>3 DEF P

(* What follows for sums of numbers.                                       *)
LEMMA SumOfNaturals ==
  ASSUME NEW S, IsFiniteSet(S), NEW g, \A x \in S : g[x] \in Nat
  PROVE  /\ Sum(g, S) \in Nat
         /\ \A x \in S : g[x] <= Sum(g, S)
<1> DEFINE P == {s \in SUBSET S : Sum(g, s) \in Nat}
<1>1. {} \in P
  BY FS_EmptySet, SumUnfolds
<1>2. ASSUME NEW s \in SUBSET S, s # {}, \A x \in s : s \ {x} \in P
      PROVE  s \in P
  <2>1. IsFiniteSet(s) /\ \A x \in s : g[x] \in Int
    BY FS_Subset
  <2>2. Pick(s) \in s /\ Sum(g, s) = g[Pick(s)] + Sum(g, s \ {Pick(s)})
    BY <1>2, <2>1, SumUnfolds
  <2>3. Sum(g, s \ {Pick(s)}) \in Nat /\ g[Pick(s)] \in Nat
    BY <1>2, <2>2
  <2> QED
    BY <2>2, <2>3
<1>3. \A s \in SUBSET S : Sum(g, s) \in Nat
  <2> HIDE DEF P
  <2>1. \A s \in SUBSET S : s \in P
    BY <1>1, <1>2, SubsetInduction
  <2> QED
    BY <2>1 DEF P
<1>4. ASSUME NEW x \in S PROVE g[x] <= Sum(g, S)
  <2>1. Sum(g, S) = g[x] + Sum(g, S \ {x})
    BY SumByAny
  <2>2. Sum(g, S \ {x}) \in Nat /\ g[x] \in Nat
    BY <1>3
  <2> QED
    BY <2>1, <2>2
<1> QED
  BY <1>3, <1>4

LEMMA SameSum ==
  ASSUME NEW S, IsFiniteSet(S), NEW g, NEW h, \A x \in S : g[x] \in Int /\ h[x] = g[x]
  PROVE  Sum(h, S) = Sum(g, S)
<1> DEFINE P == {s \in SUBSET S : Sum(h, s) = Sum(g, s)}
<1>1. {} \in P
  <2>1. Sum(g, {}) = 0 /\ Sum(h, {}) = 0
    BY FS_EmptySet, SumUnfolds
  <2> QED
    BY <2>1
<1>2. ASSUME NEW s \in SUBSET S, s # {}, \A x \in s : s \ {x} \in P
      PROVE  s \in P
  <2>1. IsFiniteSet(s) /\ \A x \in s : g[x] \in Int /\ h[x] \in Int
    BY FS_Subset
  <2>2. Pick(s) \in s /\ Sum(g, s) = g[Pick(s)] + Sum(g, s \ {Pick(s)})
    BY <1>2, <2>1, SumUnfolds
  <2>3. Sum(h, s) = h[Pick(s)] + Sum(h, s \ {Pick(s)})
    BY <1>2, <2>1, SumUnfolds
  <2>4. Sum(h, s \ {Pick(s)}) = Sum(g, s \ {Pick(s)}) /\ h[Pick(s)] = g[Pick(s)]
    BY <1>2, <2>2
  <2> QED
    BY <2>2, <2>3, <2>4
<1> HIDE DEF P
<1>3. \A s \in SUBSET S : s \in P
  BY <1>1, <1>2, SubsetInduction
<1> QED
  BY <1>3 DEF P

LEMMA SumsAddUp ==
  ASSUME NEW S, IsFiniteSet(S), NEW f, NEW g, NEW h,
         \A x \in S : f[x] \in Int /\ g[x] \in Int /\ h[x] = f[x] + g[x]
  PROVE  Sum(h, S) = Sum(f, S) + Sum(g, S)
<1> DEFINE P == {s \in SUBSET S : Sum(h, s) = Sum(f, s) + Sum(g, s)}
<1>1. {} \in P
  <2>1. Sum(f, {}) = 0 /\ Sum(g, {}) = 0 /\ Sum(h, {}) = 0
    BY FS_EmptySet, SumUnfolds
  <2> QED
    BY <2>1
<1>2. ASSUME NEW s \in SUBSET S, s # {}, \A x \in s : s \ {x} \in P
      PROVE  s \in P
  <2> DEFINE y == Pick(s)
             r == s \ {y}
  <2>1. IsFiniteSet(s) /\ \A x \in s : f[x] \in Int /\ g[x] \in Int /\ h[x] \in Int
    BY FS_Subset
  <2>2. y \in s
    BY <1>2 DEF Pick
  <2>3. IsFiniteSet(r) /\ \A x \in r : f[x] \in Int /\ g[x] \in Int
    BY <2>1, FS_Subset
  <2> HIDE DEF y
  <2>4. /\ Sum(f, s) = f[y] + Sum(f, r) /\ Sum(g, s) = g[y] + Sum(g, r)
        /\ Sum(h, s) = h[y] + Sum(h, r)
    BY <2>1, <2>2, SumByAny
  <2> HIDE DEF r
  <2>5. Sum(f, r) \in Int /\ Sum(g, r) \in Int
    BY <2>3, SumUnfolds
  <2>6. Sum(h, r) = Sum(f, r) + Sum(g, r) /\ h[y] = f[y] + g[y] /\ f[y] \in Int /\ g[y] \in Int
    BY <1>2, <2>2 DEF r
  <2>7. Sum(h, s) = Sum(f, s) + Sum(g, s)
    BY <2>4, <2>5, <2>6
  <2> QED
    BY <2>7
<1> HIDE DEF P
<1>3. \A s \in SUBSET S : s \in P
  BY <1>1, <1>2, SubsetInduction
<1> QED
  BY <1>3 DEF P

LEMMA SumWithOneChanged ==
  ASSUME NEW S, IsFiniteSet(S), NEW g, NEW h, NEW a \in S, h[a] \in Int,
         \A x \in S : g[x] \in Int /\ (x # a => h[x] = g[x])
  PROVE  Sum(h, S) = Sum(g, S) + h[a] - g[a]
<1>1. \A x \in S : h[x] \in Int
  OBVIOUS
<1>2. Sum(g, S) = g[a] + Sum(g, S \ {a}) /\ Sum(h, S) = h[a] + Sum(h, S \ {a})
  BY <1>1, SumByAny
<1>3. IsFiniteSet(S \ {a}) /\ \A x \in S \ {a} : g[x] \in Int /\ h[x] = g[x]
  BY FS_Subset
<1> DEFINE r == S \ {a}
<1> HIDE DEF r
<1>4. Sum(h, r) = Sum(g, r)
  BY <1>3, SameSum DEF r
<1>5. Sum(g, r) \in Int
  BY <1>3, SumUnfolds DEF r
<1> QED
  BY <1>2, <1>4, <1>5 DEF r

-----------------------------------------------------------------------------
(* The totals of the reclaimer: per batch, and per batch and ReclaimAuto.  *)
Slots == Batches \cup {ReclaimAuto}

LEMMA SlotsAreFinite ==
  /\ IsFiniteSet(Batches) /\ IsFiniteSet(Slots)
  /\ ReclaimAuto \notin Batches /\ Batches \subseteq Slots
<1>1. MaxBatches \in Int /\ 1 \in Int
  BY BoundsAssumption
<1>2. IsFiniteSet(Batches)
  BY <1>1, FS_Interval DEF Batches
<1>3. IsFiniteSet(Slots)
  BY <1>2, FS_AddElement DEF Slots
<1>4. ReclaimAuto \notin Batches
  BY <1>1 DEF Batches, ReclaimAuto
<1> QED
  BY <1>2, <1>3, <1>4 DEF Slots

LEMMA TotalIsSum ==
  ASSUME NEW D, NEW f \in [D -> Nat]
  PROVE  Total(f) = Sum(f, D)
<1>1. DOMAIN f = D
  OBVIOUS
<1> QED
  BY <1>1 DEF Total, Sum

LEMMA TotalOfNaturals ==
  ASSUME NEW D, IsFiniteSet(D), NEW f \in [D -> Nat]
  PROVE  /\ Total(f) \in Nat
         /\ \A x \in D : f[x] <= Total(f)
         /\ (\A x \in D : f[x] = 0) => Total(f) = 0
<1>1. Total(f) = Sum(f, D)
  BY TotalIsSum
<1>2. \A x \in D : f[x] \in Nat /\ f[x] \in Int
  OBVIOUS
<1>3. Sum(f, D) \in Nat /\ \A x \in D : f[x] <= Sum(f, D)
  BY <1>2, SumOfNaturals
<1>4. ASSUME \A x \in D : f[x] = 0 PROVE Sum(f, D) = 0
  <2>1. Sum(f, D) = Sum(f, D) + Sum(f, D)
    BY <1>4, SumsAddUp
  <2> DEFINE s == Sum(f, D)
  <2>2. s \in Nat /\ s = s + s
    BY <1>3, <2>1
  <2> HIDE DEF s
  <2>3. s = 0
    BY <2>2
  <2> QED
    BY <2>3 DEF s
<1> QED
  BY <1>1, <1>3, <1>4

LEMMA TotalZero ==
  ASSUME NEW D, IsFiniteSet(D), NEW f \in [D -> Nat]
  PROVE  Total(f) = 0 <=> \A x \in D : f[x] = 0
<1>1. \A x \in D : f[x] \in Nat
  OBVIOUS
<1>2. Total(f) = 0 => \A x \in D : f[x] = 0
  BY <1>1, TotalOfNaturals
<1> QED
  BY <1>2, TotalOfNaturals

LEMMA TotalChanged ==
  ASSUME NEW D, IsFiniteSet(D), NEW f \in [D -> Nat], NEW h \in [D -> Nat], NEW a \in D,
         \A x \in D \ {a} : h[x] = f[x]
  PROVE  Total(h) = Total(f) + h[a] - f[a]
<1>1. Total(f) = Sum(f, D) /\ Total(h) = Sum(h, D)
  BY TotalIsSum
<1>2. h[a] \in Int /\ \A x \in D : f[x] \in Int /\ (x # a => h[x] = f[x])
  OBVIOUS
<1>3. Sum(h, D) = Sum(f, D) + h[a] - f[a]
  BY <1>2, SumWithOneChanged
<1> QED
  BY <1>1, <1>3

(* The items that the clients W carry, when there is none or one of them.  *)
LEMMA CarriedItems ==
  ASSUME NEW k, NEW W
  PROVE  /\ W = {} => Total([c \in W |-> k[c].items]) = 0
         /\ \A d : W = {d} /\ k[d].items \in Nat => Total([c \in W |-> k[c].items]) = k[d].items
<1> DEFINE f == [c \in W |-> k[c].items]
<1>1. ASSUME W = {} PROVE Total(f) = 0
  <2>1. f \in [{} -> Nat] /\ IsFiniteSet({}) /\ \A x \in {} : f[x] = 0
    BY <1>1, FS_EmptySet
  <2> HIDE DEF f
  <2> QED
    BY <2>1, TotalOfNaturals
<1>2. ASSUME NEW d, W = {d}, k[d].items \in Nat PROVE Total(f) = k[d].items
  <2>1. f \in [{d} -> Nat] /\ f[d] = k[d].items /\ \A c \in {d} : f[c] \in Int
    BY <1>2
  <2>2. IsFiniteSet({d}) /\ {d} \ {d} = {} /\ IsFiniteSet({})
    BY FS_Singleton, FS_EmptySet
  <2> HIDE DEF f
  <2>3. Sum(f, {}) = 0
    BY <2>2, SumUnfolds
  <2>4. Sum(f, {d}) = f[d] + Sum(f, {d} \ {d})
    BY <2>1, <2>2, SumByAny
  <2>5. Sum(f, {d} \ {d}) = 0
    BY <2>2, <2>3
  <2>6. Total(f) = f[d] + 0
    BY <2>1, <2>4, <2>5, TotalIsSum
  <2> QED
    BY <1>2, <2>1, <2>6
<1> QED
  BY <1>1, <1>2

-----------------------------------------------------------------------------
(* The inductive invariant.  Where threads can be:                         *)
ClientPlaces == {"out", "publish", "find", "await", "idle", "block", "asleep"}
WorkerPlaces == {"loop", "block", "asleep", "free", "count", "complete", "signal", "sweep", "exit"}

PlacesOK == pc[Worker] \in WorkerPlaces /\ \A c \in Clients : pc[c] \in ClientPlaces

(* Where the items are, and the counters that say so.                      *)
ItemsOK ==
  /\ \A b \in Batches : total[b] = Held(b) + queued[b] + InHand(b) + freed[b]
  /\ total[ReclaimAuto] = queued[ReclaimAuto] + InHand(ReclaimAuto) + freed[ReclaimAuto]
  /\ deferred = Total([b \in Batches |-> Held(b)])
  /\ outstanding = Total(queued) + IF pc[Worker] \in {"free", "count"} THEN Total(taken) ELSE 0

(* The worker has something only in a round, and leaves with nothing.      *)
WorkerOK ==
  /\ pc[Worker] \notin {"free", "count", "complete"} => \A b \in Slots : taken[b] = 0
  /\ pc[Worker] \in {"sweep", "exit"} => stopping /\ \A b \in Slots : queued[b] = 0

(* A batch has items with the worker only after its items were published,  *)
(* and is complete only when it has none anywhere.                         *)
BatchOK(b) ==
  /\ b \in live => active[b] = queued[b] + taken[b]
  /\ b \in completed => taken[b] = 0
  /\ b \notin 1..created => total[b] = 0 /\ active[b] = 0
  /\ b \notin activated \/ pending[b] > 0 => queued[b] = 0 /\ taken[b] = 0
  /\ b \in activated /\ pending[b] > 0 => dtor.at = "publish" /\ dtor.batch = b

(* The client that activated a batch is the only one to carry its items.   *)
CarrierOK(c) ==
  /\ pc[c] = "publish" =>
       LET b == call[c].batch
       IN  /\ b \in live /\ b \in sealed /\ b \in activated
           /\ pending[b] = 0 /\ queued[b] = 0 /\ taken[b] = 0
           /\ \A d \in Clients : pc[d] = "publish" /\ call[d].batch = b => d = c
  /\ pc[c] \in {"find", "await"} => call[c].batch \in 1..created

(* The destructor runs alone, and leaves no batch behind that holds items  *)
(* back.                                                                   *)
DestructorOK ==
  /\ dtor.at = "alive" => activated \subseteq sealed /\ dtor.visited = {} /\ ~stopping
  /\ dtor.at # "alive" => \A c \in Clients : pc[c] = "out"
  /\ dtor.at \in {"scan", "publish", "relock"} =>
       ~stopping /\ \A b \in dtor.visited : pending[b] = 0 \/ (dtor.at = "publish" /\ b = dtor.batch)
  /\ dtor.at = "publish" =>
       LET b == dtor.batch IN b \in live /\ b \in activated /\ b \in dtor.visited /\ pending[b] > 0
  /\ dtor.at = "undefined" => ~stopping
  /\ dtor.at \in {"notify", "join", "gone"} => \A b \in live : pending[b] = 0
  /\ dtor.at = "gone" => pc[Worker] = "exit"

ReclaimerInv ==
  /\ ReclaimerTypeOK /\ CompletedBatchesAreEmpty /\ PlacesOK /\ ItemsOK /\ WorkerOK
  /\ \A b \in Batches : BatchOK(b)
  /\ \A c \in Clients : CarrierOK(c)
  /\ DestructorOK

-----------------------------------------------------------------------------
LEMMA TypeFacts ==
  ASSUME ReclaimerInv
  PROVE  /\ \A b \in Batches : pending[b] \in Nat /\ active[b] \in Nat
         /\ \A b \in Slots : /\ total[b] \in Nat /\ queued[b] \in Nat
                             /\ taken[b] \in Nat /\ freed[b] \in Nat /\ InHand(b) \in Nat
         /\ \A c \in Clients : call[c].items \in Nat
         /\ Batches \subseteq Slots /\ ReclaimAuto \in Slots /\ ReclaimAuto \notin Batches
         /\ 1..created \subseteq Batches /\ live \subseteq 1..created
         /\ Worker \notin Clients /\ Worker \in Threads /\ Clients \subseteq Threads
<1>1. \A b \in Batches : pending[b] \in Nat /\ active[b] \in Nat
  BY DEF ReclaimerInv, ReclaimerTypeOK
<1>2. \A b \in Slots : total[b] \in Nat /\ queued[b] \in Nat /\ taken[b] \in Nat /\ freed[b] \in Nat
  BY DEF ReclaimerInv, ReclaimerTypeOK, Slots
<1>3. \A b \in Slots : InHand(b) \in Nat
  BY <1>2 DEF InHand
<1>4. \A c \in Clients : call[c].items \in Nat
  BY DEF ReclaimerInv, ReclaimerTypeOK
<1>5. 1..created \subseteq Batches /\ live \subseteq 1..created
  BY BoundsAssumption DEF ReclaimerInv, ReclaimerTypeOK, Batches
<1>6. Worker \notin Clients /\ Worker \in Threads /\ Clients \subseteq Threads
  BY ThreadsAssumption DEF Threads
<1> QED
  BY <1>1, <1>2, <1>3, <1>4, <1>5, <1>6, SlotsAreFinite DEF Slots

(* What a batch holds back: its pending items, or those of its carrier.    *)
LEMMA HeldFacts ==
  ASSUME ReclaimerInv, NEW b \in Batches
  PROVE  /\ Held(b) \in Nat
         /\ OnTheWay(b) = {} => Held(b) = pending[b]
         /\ \A c \in Clients : pc[c] = "publish" /\ call[c].batch = b =>
              OnTheWay(b) = {c} /\ Held(b) = call[c].items
<1>1. pending[b] \in Nat /\ \A c \in Clients : call[c].items \in Nat
  BY TypeFacts
<1>2. OnTheWay(b) = {} => Held(b) = pending[b]
  <2> SUFFICES ASSUME OnTheWay(b) = {} PROVE Held(b) = pending[b]
    OBVIOUS
  <2>1. Total([c \in OnTheWay(b) |-> call[c].items]) = 0
    BY CarriedItems
  <2> QED
    BY <1>1, <2>1 DEF Held
<1>3. ASSUME NEW c \in Clients, pc[c] = "publish", call[c].batch = b
      PROVE  OnTheWay(b) = {c} /\ Held(b) = call[c].items
  <2>1. CarrierOK(c)
    BY DEF ReclaimerInv
  <2>2. OnTheWay(b) = {c} /\ pending[b] = 0
    BY <1>3, <2>1 DEF CarrierOK, OnTheWay
  <2>3. Total([d \in OnTheWay(b) |-> call[d].items]) = call[c].items
    BY <1>1, <2>2, CarriedItems
  <2> QED
    BY <1>1, <2>2, <2>3 DEF Held
<1>4. OnTheWay(b) = {} \/ \E c \in Clients : pc[c] = "publish" /\ call[c].batch = b
  BY DEF OnTheWay
<1> QED
  BY <1>1, <1>2, <1>3, <1>4
-----------------------------------------------------------------------------
(* What a step leaves alone.  The two parts of the invariant that speak of *)
(* all the threads and all the items need only these facts.                *)
LEMMA HeldStays ==
  ASSUME NEW b, pending'[b] = pending[b], OnTheWay(b)' = OnTheWay(b),
         \A c \in OnTheWay(b) : call'[c].items = call[c].items
  PROVE  Held(b)' = Held(b)
<1>1. [c \in OnTheWay(b)' |-> call'[c].items] = [c \in OnTheWay(b) |-> call[c].items]
  OBVIOUS
<1> QED
  BY <1>1 DEF Held

LEMMA ItemsStay ==
  ASSUME ReclaimerInv, UNCHANGED <<total, queued, taken, freed, deferred, outstanding>>,
         \A b \in Batches : Held(b)' = Held(b),
         pc'[Worker] = "free" <=> pc[Worker] = "free",
         pc'[Worker] \in {"free", "count"} <=> pc[Worker] \in {"free", "count"}
  PROVE  ItemsOK'
<1>1. \A b \in Slots : InHand(b)' = InHand(b)
  BY DEF InHand
<1>2. [b \in Batches |-> Held(b)'] = [b \in Batches |-> Held(b)]
  OBVIOUS
<1>3. Batches \subseteq Slots /\ ReclaimAuto \in Slots
  BY TypeFacts
<1>4. ItemsOK
  BY DEF ReclaimerInv
<1>5. deferred' = Total([b \in Batches |-> Held(b)'])
  BY <1>2, <1>4 DEF ItemsOK
<1>6. \A b \in Batches : total'[b] = Held(b)' + queued'[b] + InHand(b)' + freed'[b]
  BY <1>1, <1>3, <1>4 DEF ItemsOK
<1>7. total'[ReclaimAuto] = queued'[ReclaimAuto] + InHand(ReclaimAuto)' + freed'[ReclaimAuto]
  BY <1>1, <1>3, <1>4 DEF ItemsOK
<1>8. outstanding' = Total(queued') + IF pc'[Worker] \in {"free", "count"} THEN Total(taken') ELSE 0
  BY <1>4 DEF ItemsOK
<1> QED
  BY <1>5, <1>6, <1>7, <1>8 DEF ItemsOK

LEMMA DestructorStays ==
  ASSUME ReclaimerInv, UNCHANGED <<live, sealed, activated, pending, stopping, dtor>>,
         dtor.at # "alive" => \A c \in Clients : pc'[c] = pc[c],
         pc[Worker] = "exit" => pc'[Worker] = "exit"
  PROVE  DestructorOK'
BY DEF ReclaimerInv, DestructorOK

(* A step that only moves threads, and none of them to or from a place     *)
(* where it has items, keeps the invariant.                                *)
LEMMA QuietStep ==
  ASSUME ReclaimerInv, UNCHANGED <<batchVars, workVars, counters, stopping, call>>,
         ReclaimerTypeOK', PlacesOK', DestructorOK',
         pc'[Worker] = pc[Worker]
           \/ (pc[Worker] \in {"loop", "block", "asleep", "signal"}
               /\ pc'[Worker] \in {"loop", "block", "asleep", "signal"}),
         \A c \in Clients : pc'[c] = "publish" <=> pc[c] = "publish",
         \A c \in Clients : pc'[c] \in {"find", "await"} => pc[c] \in {"find", "await"},
         dtor.at = "publish" => dtor' = dtor
  PROVE  ReclaimerInv'
<1> USE DEF batchVars, workVars, counters
<1>1. CompletedBatchesAreEmpty'
  BY DEF ReclaimerInv, CompletedBatchesAreEmpty
<1>2. \A b \in Batches : Held(b)' = Held(b)
  <2> SUFFICES ASSUME NEW b \in Batches PROVE Held(b)' = Held(b)
    OBVIOUS
  <2>1. OnTheWay(b)' = OnTheWay(b)
    BY DEF OnTheWay
  <2> QED
    BY <2>1, HeldStays
<1>3. ItemsOK'
  BY <1>2, ItemsStay
<1>4. WorkerOK'
  BY DEF ReclaimerInv, WorkerOK
<1>5. \A b \in Batches : BatchOK(b)'
  BY DEF ReclaimerInv, BatchOK
<1>6. \A c \in Clients : CarrierOK(c)'
  BY DEF ReclaimerInv, CarrierOK
<1> QED
  BY <1>1, <1>3, <1>4, <1>5, <1>6 DEF ReclaimerInv
LEMMA QuietMove ==
  ASSUME ReclaimerInv, UNCHANGED <<batchVars, workVars, counters, stopping, call, dtor>>,
         workLock' \in Threads \cup {Free}, NEW t \in Threads, NEW place, Move(t, place),
         t = Worker => /\ pc[t] \in {"loop", "block", "asleep", "signal"}
                       /\ place \in {"loop", "block", "asleep", "signal"},
         t # Worker => /\ pc[t] # "out" \/ dtor.at = "alive"
                       /\ pc[t] # "publish" /\ place \in ClientPlaces \ {"publish"}
                       /\ place \in {"find", "await"} => pc[t] \in {"find", "await"}
  PROVE  ReclaimerInv'
<1> USE DEF batchVars, workVars, counters
<1>1. ReclaimerTypeOK /\ PlacesOK /\ DestructorOK
  BY DEF ReclaimerInv
<1>2. pc'[t] = place /\ \A u \in Threads : u # t => pc'[u] = pc[u]
  BY <1>1 DEF Move, ReclaimerTypeOK
<1>3. Worker \notin Clients /\ Worker \in Threads /\ Clients \subseteq Threads /\ Threads = Clients \cup {Worker}
  BY TypeFacts DEF Threads
<1>4. ReclaimerTypeOK'
  <2>1. pc' \in [Threads -> {"loop", "block", "asleep", "free", "count", "complete", "signal",
                             "sweep", "exit", "out", "publish", "find", "await", "idle"}]
    BY <1>1 DEF Move, ReclaimerTypeOK, ClientPlaces
  <2> QED
    BY <1>1, <2>1 DEF ReclaimerTypeOK
<1>5. PlacesOK'
  <2>1. pc'[Worker] \in WorkerPlaces
    BY <1>1, <1>2, <1>3 DEF PlacesOK, WorkerPlaces
  <2>2. \A c \in Clients : pc'[c] \in ClientPlaces
    BY <1>1, <1>2, <1>3 DEF PlacesOK
  <2> QED
    BY <2>1, <2>2 DEF PlacesOK
<1>6. DestructorOK'
  <2>1. dtor.at # "alive" => \A c \in Clients : pc[c] = "out"
    BY <1>1 DEF DestructorOK
  <2>2. dtor.at # "alive" => \A c \in Clients : pc'[c] = pc[c]
    BY <1>2, <1>3, <2>1
  <2>3. pc[Worker] = "exit" => pc'[Worker] = "exit"
    BY <1>2, <1>3
  <2> QED
    BY <2>2, <2>3, DestructorStays
<1>7. \/ pc'[Worker] = pc[Worker]
      \/ /\ pc[Worker] \in {"loop", "block", "asleep", "signal"}
         /\ pc'[Worker] \in {"loop", "block", "asleep", "signal"}
  BY <1>2, <1>3
<1>8. /\ \A c \in Clients : pc'[c] = "publish" <=> pc[c] = "publish"
      /\ \A c \in Clients : pc'[c] \in {"find", "await"} => pc[c] \in {"find", "await"}
  BY <1>2, <1>3
<1> QED
  BY <1>4, <1>5, <1>6, <1>7, <1>8, QuietStep

(* The steps that are quiet moves of one thread.                           *)
LEMMA OneThreadMoves ==
  ASSUME ReclaimerInv
  PROVE  /\ \A c \in Clients : FindBatch(c) => ReclaimerInv'
         /\ \A c \in Clients : AwaitCompletion(c) => ReclaimerInv'
         /\ \A c \in Clients : CallWaitIdle(c) => ReclaimerInv'
         /\ \A c \in Clients : CheckIdle(c) => ReclaimerInv'
         /\ \A t \in Threads : Block(t) => ReclaimerInv'
         /\ \A t \in Threads : SpuriousWakeup(t) => ReclaimerInv'
<1> USE DEF batchVars, workVars, counters
<1>1. workLock \in Threads \cup {Free} /\ Free \in Threads \cup {Free} /\ Clients \subseteq Threads
      /\ Worker \notin Clients /\ Threads = Clients \cup {Worker}
  BY TypeFacts DEF ReclaimerInv, ReclaimerTypeOK, Threads
<1>2. ASSUME NEW c \in Clients, FindBatch(c) PROVE ReclaimerInv'
  <2> DEFINE place == IF call[c].batch \in live THEN "await" ELSE "out"
  <2>1. Move(c, place) /\ pc[c] = "find" /\ place \in {"await", "out"}
        /\ workLock' \in Threads \cup {Free} /\ c # Worker /\ c \in Threads
    BY <1>1, <1>2 DEF FindBatch
  <2>2. UNCHANGED <<batchVars, workVars, counters, stopping, call, dtor>>
    BY <1>2 DEF FindBatch
  <2> HIDE DEF place
  <2> QED
    BY <2>1, <2>2, QuietMove DEF ClientPlaces
<1>3. ASSUME NEW c \in Clients, AwaitCompletion(c) PROVE ReclaimerInv'
  <2>1. Move(c, "out") /\ pc[c] = "await"
        /\ workLock' \in Threads \cup {Free} /\ c # Worker /\ c \in Threads
    BY <1>1, <1>3 DEF AwaitCompletion
  <2>2. UNCHANGED <<batchVars, workVars, counters, stopping, call, dtor>>
    BY <1>3 DEF AwaitCompletion
  <2> QED
    BY <2>1, <2>2, QuietMove DEF ClientPlaces
<1>4. ASSUME NEW c \in Clients, CallWaitIdle(c) PROVE ReclaimerInv'
  <2>1. Move(c, "idle") /\ pc[c] = "out" /\ dtor.at = "alive"
        /\ workLock' \in Threads \cup {Free} /\ c # Worker /\ c \in Threads
    BY <1>1, <1>4 DEF CallWaitIdle, Idle
  <2>2. UNCHANGED <<batchVars, workVars, counters, stopping, call, dtor>>
    BY <1>4 DEF CallWaitIdle
  <2> QED
    BY <2>1, <2>2, QuietMove DEF ClientPlaces
<1>5. ASSUME NEW c \in Clients, CheckIdle(c) PROVE ReclaimerInv'
  <2>1. PICK place \in {"out", "block"} : Move(c, place)
    BY <1>5 DEF CheckIdle
  <2>2. pc[c] = "idle" /\ workLock' \in Threads \cup {Free} /\ c # Worker /\ c \in Threads
    BY <1>1, <1>5 DEF CheckIdle
  <2>3. UNCHANGED <<batchVars, workVars, counters, stopping, call, dtor>>
    BY <1>5 DEF CheckIdle
  <2> QED
    BY <2>1, <2>2, <2>3, QuietMove DEF ClientPlaces
<1>6. ASSUME NEW t \in Threads, Block(t) PROVE ReclaimerInv'
  <2>1. Move(t, "asleep") /\ pc[t] = "block" /\ workLock' \in Threads \cup {Free}
    BY <1>1, <1>6 DEF Block
  <2>2. UNCHANGED <<batchVars, workVars, counters, stopping, call, dtor>>
    BY <1>6 DEF Block
  <2> QED
    BY <2>1, <2>2, QuietMove DEF ClientPlaces
<1>7. ASSUME NEW t \in Threads, SpuriousWakeup(t) PROVE ReclaimerInv'
  <2> DEFINE place == Retry(t)
  <2>1. Move(t, place) /\ pc[t] = "asleep" /\ workLock' \in Threads \cup {Free}
        /\ (t = Worker => place = "loop") /\ (t # Worker => place = "idle")
    BY <1>1, <1>7 DEF SpuriousWakeup, Asleep, Retry
  <2>2. UNCHANGED <<batchVars, workVars, counters, stopping, call, dtor>>
    BY <1>7 DEF SpuriousWakeup
  <2> HIDE DEF place
  <2> QED
    BY <2>1, <2>2, QuietMove DEF ClientPlaces
<1> QED
  BY <1>2, <1>3, <1>4, <1>5, <1>6, <1>7

(* A notification: every sleeper retries.                                  *)
LEMMA NotifiedSteps ==
  ASSUME ReclaimerInv
  PROVE  (Signal \/ NotifyStopping) => ReclaimerInv'
<1> USE DEF batchVars, workVars, counters
<1>1. ReclaimerTypeOK /\ PlacesOK /\ DestructorOK
  BY DEF ReclaimerInv
<1>2. Worker \notin Clients /\ Worker \in Threads /\ Clients \subseteq Threads /\ Threads = Clients \cup {Worker}
  BY TypeFacts DEF Threads
<1>3. ASSUME Signal PROVE ReclaimerInv'
  <2>1. \A u \in Threads : pc'[u] = IF u = Worker THEN "loop" ELSE IF pc[u] = "asleep" THEN Retry(u) ELSE pc[u]
    BY <1>3 DEF Signal, WakeAllAnd, Asleep
  <2>2. pc'[Worker] = "loop" /\ pc[Worker] = "signal"
    BY <1>2, <1>3, <2>1 DEF Signal
  <2>3. \A c \in Clients : pc'[c] = pc[c] \/ (pc[c] = "asleep" /\ pc'[c] = "idle")
    BY <1>2, <2>1 DEF Retry
  <2>4. ReclaimerTypeOK'
    <3>1. pc' \in [Threads -> {"loop", "block", "asleep", "free", "count", "complete", "signal",
                               "sweep", "exit", "out", "publish", "find", "await", "idle"}]
      BY <1>1, <1>3 DEF Signal, WakeAllAnd, Asleep, Retry, ReclaimerTypeOK
    <3> QED
      BY <1>1, <1>3, <3>1 DEF Signal, ReclaimerTypeOK
  <2>5. PlacesOK'
    BY <1>1, <2>2, <2>3 DEF PlacesOK, WorkerPlaces, ClientPlaces
  <2>6. DestructorOK'
    <3>1. dtor.at # "alive" => \A c \in Clients : pc'[c] = pc[c]
      BY <1>1, <2>3 DEF DestructorOK
    <3> QED
      BY <1>3, <2>2, <3>1, DestructorStays DEF Signal
  <2>7. UNCHANGED <<batchVars, workVars, counters, stopping, call, dtor>>
    BY <1>3 DEF Signal
  <2>8. /\ \A c \in Clients : pc'[c] = "publish" <=> pc[c] = "publish"
        /\ \A c \in Clients : pc'[c] \in {"find", "await"} => pc[c] \in {"find", "await"}
    BY <2>3
  <2> QED
    BY <2>2, <2>4, <2>5, <2>6, <2>7, <2>8, QuietStep
<1>4. ASSUME NotifyStopping PROVE ReclaimerInv'
  <2>1. \A u \in Threads : pc'[u] = IF pc[u] = "asleep" THEN Retry(u) ELSE pc[u]
    BY <1>4 DEF NotifyStopping, WakeAll, Asleep
  <2>2. pc'[Worker] = pc[Worker] \/ (pc[Worker] = "asleep" /\ pc'[Worker] = "loop")
    BY <1>2, <2>1 DEF Retry
  <2>3. dtor.at = "notify" /\ dtor' = [dtor EXCEPT !.at = "join"]
    BY <1>4 DEF NotifyStopping
  <2>4. dtor'.at = "join" /\ dtor'.batch = dtor.batch /\ dtor'.visited = dtor.visited
    BY <1>1, <2>3 DEF ReclaimerTypeOK
  <2>5. \A c \in Clients : pc[c] = "out"
    BY <1>1, <2>3 DEF DestructorOK
  <2>6. \A c \in Clients : pc'[c] = pc[c]
    BY <1>2, <2>1, <2>5
  <2>7. UNCHANGED <<batchVars, workVars, counters, stopping, call>>
    BY <1>4 DEF NotifyStopping
  <2>8. ReclaimerTypeOK'
    <3>1. pc' \in [Threads -> {"loop", "block", "asleep", "free", "count", "complete", "signal",
                               "sweep", "exit", "out", "publish", "find", "await", "idle"}]
      BY <1>1, <1>4 DEF NotifyStopping, WakeAll, Asleep, Retry, ReclaimerTypeOK
    <3>2. workLock' = workLock
      BY <1>4 DEF NotifyStopping
    <3> QED
      BY <1>1, <2>3, <2>7, <3>1, <3>2 DEF ReclaimerTypeOK
  <2>9. PlacesOK'
    BY <1>1, <2>2, <2>6 DEF PlacesOK, WorkerPlaces
  <2>10. DestructorOK'
    BY <1>1, <2>3, <2>4, <2>5, <2>6, <2>7 DEF DestructorOK
  <2> QED
    BY <2>2, <2>3, <2>6, <2>7, <2>8, <2>9, <2>10, QuietStep
<1> QED
  BY <1>3, <1>4
(* The steps of the destructor that only move it.                          *)
LEMMA DestructorMoves ==
  ASSUME ReclaimerInv
  PROVE  (BeginDestruction \/ Relock \/ Join) => ReclaimerInv'
<1> USE DEF batchVars, workVars, counters
<1>1. ReclaimerTypeOK /\ PlacesOK /\ DestructorOK
  BY DEF ReclaimerInv
<1>2. ASSUME UNCHANGED <<pc, workLock, batchVars, workVars, counters, stopping, call>>,
             NEW at \in {"scan", "undefined", "gone"}, dtor' = [dtor EXCEPT !.at = at],
             dtor.at # "publish", DestructorOK'
      PROVE  ReclaimerInv'
  <2>1. ReclaimerTypeOK'
    BY <1>1, <1>2 DEF ReclaimerTypeOK
  <2>2. PlacesOK'
    BY <1>1, <1>2 DEF PlacesOK
  <2> QED
    BY <1>2, <2>1, <2>2, QuietStep
<1>3. \A at : /\ [dtor EXCEPT !.at = at].at = at
              /\ [dtor EXCEPT !.at = at].visited = dtor.visited
              /\ [dtor EXCEPT !.at = at].batch = dtor.batch
  BY <1>1 DEF ReclaimerTypeOK
<1>4. ASSUME BeginDestruction PROVE ReclaimerInv'
  <2>1. dtor'.at = "scan" /\ dtor'.visited = dtor.visited /\ dtor.at = "alive"
        /\ \A c \in Clients : pc'[c] = "out"
    BY <1>3, <1>4 DEF BeginDestruction, Idle
  <2>2. DestructorOK'
    BY <1>1, <1>4, <2>1 DEF BeginDestruction, DestructorOK
  <2> QED
    BY <1>2, <1>4, <2>1, <2>2 DEF BeginDestruction
<1>5. ASSUME Relock PROVE ReclaimerInv'
  <2> DEFINE at == IF dtor.batch \in live THEN "scan" ELSE "undefined"
  <2>1. dtor' = [dtor EXCEPT !.at = at] /\ at \in {"scan", "undefined"} /\ dtor.at = "relock"
        /\ UNCHANGED <<pc, workLock, batchVars, workVars, counters, stopping, call>>
    BY <1>5 DEF Relock
  <2> HIDE DEF at
  <2>2. dtor'.at = at /\ dtor'.visited = dtor.visited
    BY <1>3, <2>1
  <2>3. DestructorOK'
    BY <1>1, <2>1, <2>2 DEF DestructorOK
  <2> QED
    BY <1>2, <2>1, <2>3
<1>6. ASSUME Join PROVE ReclaimerInv'
  <2>1. dtor'.at = "gone" /\ dtor'.visited = dtor.visited /\ dtor.at = "join" /\ pc[Worker] = "exit"
    BY <1>3, <1>6 DEF Join
  <2>2. DestructorOK'
    BY <1>1, <1>6, <2>1 DEF Join, DestructorOK
  <2> QED
    BY <1>2, <1>6, <2>1, <2>2 DEF Join
<1> QED
  BY <1>4, <1>5, <1>6

(* Once the destructor runs, no client is in a call and none carries items. *)
LEMMA NobodyCarries ==
  ASSUME ReclaimerInv, dtor.at # "alive"
  PROVE  /\ \A c \in Clients : pc[c] = "out"
         /\ \A b : OnTheWay(b) = {}
BY DEF ReclaimerInv, DestructorOK, OnTheWay

LEMMA VisitStep ==
  ASSUME ReclaimerInv, Visit
  PROVE  ReclaimerInv'
<1> USE DEF batchVars, workVars, counters
<1>1. ReclaimerTypeOK /\ PlacesOK /\ DestructorOK /\ WorkerOK /\ CompletedBatchesAreEmpty
      /\ \A b \in Batches : BatchOK(b)
  BY DEF ReclaimerInv
<1>2. PICK b \in Unvisited :
        /\ activated' = activated \cup {b}
        /\ dtor' = [visited |-> dtor.visited \cup {b}, batch |-> b,
                    at |-> IF b \in activated \/ pending[b] = 0 THEN "scan" ELSE "publish"]
  BY DEF Visit
<1>3. dtor.at = "scan" /\ UNCHANGED <<pc, workLock, created, live, sealed, completed, pending,
                                      active, total, workVars, counters, stopping, call>>
  BY DEF Visit
<1>4. b \in live /\ b \in Batches /\ b \in 1..created
  BY <1>2, TypeFacts DEF Unvisited
<1>5. /\ dtor'.at = IF b \in activated \/ pending[b] = 0 THEN "scan" ELSE "publish"
      /\ dtor'.batch = b /\ dtor'.visited = dtor.visited \cup {b}
  BY <1>2
<1>6. \A c \in Clients : pc[c] = "out" /\ pc'[c] = "out"
  BY <1>3, NobodyCarries
<1>7. \A d \in Batches : pending[d] \in Nat
  BY TypeFacts
<1>8. \A d \in activated \cap Batches : pending[d] = 0
  BY <1>1, <1>3, <1>7 DEF BatchOK
<1>9. ReclaimerTypeOK'
  <2>1. activated' \subseteq 1..created
    BY <1>1, <1>2, <1>4 DEF ReclaimerTypeOK
  <2>2. dtor' \in [at : {"alive", "scan", "publish", "relock", "undefined", "notify", "join", "gone"},
                   batch : Batches \cup {ReclaimAuto}, visited : SUBSET Batches]
    BY <1>1, <1>2, <1>4 DEF ReclaimerTypeOK
  <2> QED
    BY <1>1, <1>3, <2>1, <2>2 DEF ReclaimerTypeOK
<1>10. CompletedBatchesAreEmpty' /\ PlacesOK' /\ WorkerOK'
  BY <1>1, <1>3 DEF CompletedBatchesAreEmpty, PlacesOK, WorkerOK
<1>11. ItemsOK'
  <2>1. \A d \in Batches : Held(d)' = Held(d)
    BY <1>3, HeldStays DEF OnTheWay
  <2> QED
    BY <1>3, <2>1, ItemsStay
<1>12. \A d \in Batches : BatchOK(d)'
  <2> SUFFICES ASSUME NEW d \in Batches PROVE BatchOK(d)'
    OBVIOUS
  <2>1. BatchOK(d)
    BY <1>1
  <2>2. d \in activated' /\ pending'[d] > 0 => dtor'.at = "publish" /\ dtor'.batch = d
    BY <1>2, <1>3, <1>5, <1>7, <1>8
  <2> QED
    BY <1>2, <1>3, <2>1, <2>2 DEF BatchOK
<1>13. \A c \in Clients : CarrierOK(c)'
  BY <1>6 DEF CarrierOK
<1>14. DestructorOK'
  <2>1. \A d \in dtor'.visited : pending'[d] = 0 \/ (dtor'.at = "publish" /\ d = dtor'.batch)
    BY <1>1, <1>3, <1>4, <1>5, <1>8 DEF DestructorOK
  <2>2. dtor'.at = "publish" =>
          dtor'.batch \in live' /\ dtor'.batch \in activated' /\ dtor'.batch \in dtor'.visited
          /\ pending'[dtor'.batch] > 0
    BY <1>2, <1>3, <1>4, <1>5, <1>7
  <2>3. dtor'.at \in {"scan", "publish"} /\ ~stopping'
    BY <1>1, <1>3, <1>5 DEF DestructorOK
  <2> QED
    BY <1>6, <2>1, <2>2, <2>3 DEF DestructorOK
<1> QED
  BY <1>9, <1>10, <1>11, <1>12, <1>13, <1>14 DEF ReclaimerInv

LEMMA SetStoppingStep ==
  ASSUME ReclaimerInv, SetStopping
  PROVE  ReclaimerInv'
<1> USE DEF batchVars, workVars, counters
<1>1. ReclaimerTypeOK /\ PlacesOK /\ DestructorOK /\ WorkerOK /\ CompletedBatchesAreEmpty
      /\ \A b \in Batches : BatchOK(b)
  BY DEF ReclaimerInv
<1>2. /\ dtor.at = "scan" /\ live \subseteq dtor.visited /\ stopping' = TRUE
      /\ UNCHANGED <<pc, workLock, batchVars, workVars, counters, call>>
      /\ dtor' = [dtor EXCEPT !.at = "notify"]
  BY DEF SetStopping, Unvisited
<1>3. dtor'.at = "notify" /\ \A c \in Clients : pc[c] = "out" /\ pc'[c] = "out"
  BY <1>1, <1>2, NobodyCarries DEF ReclaimerTypeOK
<1>4. ReclaimerTypeOK'
  BY <1>1, <1>2 DEF ReclaimerTypeOK
<1>5. CompletedBatchesAreEmpty' /\ PlacesOK' /\ WorkerOK'
  BY <1>1, <1>2 DEF CompletedBatchesAreEmpty, PlacesOK, WorkerOK
<1>6. ItemsOK'
  <2>1. \A d \in Batches : Held(d)' = Held(d)
    BY <1>2, HeldStays DEF OnTheWay
  <2> QED
    BY <1>2, <2>1, ItemsStay
<1>7. \A d \in Batches : BatchOK(d)'
  BY <1>1, <1>2 DEF BatchOK
<1>8. \A c \in Clients : CarrierOK(c)'
  BY <1>3 DEF CarrierOK
<1>9. DestructorOK'
  BY <1>1, <1>2, <1>3 DEF DestructorOK
<1> QED
  BY <1>4, <1>5, <1>6, <1>7, <1>8, <1>9 DEF ReclaimerInv
-----------------------------------------------------------------------------
(* The calls that create, fill and seal a batch.                           *)
LEMMA CreateBatchStep ==
  ASSUME ReclaimerInv, NEW c \in Clients, CreateBatch(c)
  PROVE  ReclaimerInv'
<1> USE DEF batchVars, workVars, counters
<1>1. ReclaimerTypeOK /\ PlacesOK /\ DestructorOK /\ WorkerOK /\ CompletedBatchesAreEmpty /\ ItemsOK
      /\ (\A b \in Batches : BatchOK(b)) /\ \A d \in Clients : CarrierOK(d)
  BY DEF ReclaimerInv
<1>2. /\ created < MaxBatches /\ created' = created + 1 /\ live' = live \cup {created + 1}
      /\ dtor.at = "alive"
      /\ UNCHANGED <<pc, workLock, sealed, activated, completed, pending, active, total,
                     workVars, counters, stopping, call, dtor>>
  BY DEF CreateBatch, Idle
<1>3. created \in Nat /\ created + 1 \in Nat /\ MaxBatches \in Nat /\ created + 1 <= MaxBatches
  BY <1>1, <1>2, BoundsAssumption DEF ReclaimerTypeOK
<1>4. created + 1 \in Batches /\ created + 1 \notin 1..created /\ 1..created' = 1..created \cup {created + 1}
  BY <1>2, <1>3 DEF Batches
<1>5. completed \subseteq 1..created /\ activated \subseteq 1..created /\ sealed \subseteq 1..created
      /\ live \subseteq 1..created
  BY <1>1 DEF ReclaimerTypeOK
<1>6. ReclaimerTypeOK'
  BY <1>1, <1>2, <1>3, <1>4, <1>5 DEF ReclaimerTypeOK
<1>7. CompletedBatchesAreEmpty'
  BY <1>1, <1>2, <1>4, <1>5 DEF CompletedBatchesAreEmpty
<1>8. PlacesOK' /\ WorkerOK'
  BY <1>1, <1>2 DEF PlacesOK, WorkerOK
<1>9. ItemsOK'
  <2>1. \A b \in Batches : Held(b)' = Held(b)
    BY <1>2, HeldStays DEF OnTheWay
  <2> QED
    BY <1>2, <2>1, ItemsStay
<1>10. \A b \in Batches : BatchOK(b)'
  <2> SUFFICES ASSUME NEW b \in Batches PROVE BatchOK(b)'
    OBVIOUS
  <2>1. BatchOK(b)
    BY <1>1
  <2>2. b = created + 1 => active[b] = queued[b] + taken[b]
    <3>1. b = created + 1 => queued[b] = 0 /\ taken[b] = 0 /\ active[b] = 0
      BY <1>4, <1>5, <2>1 DEF BatchOK
    <3> QED
      BY <3>1
  <2> QED
    BY <1>2, <1>4, <2>1, <2>2 DEF BatchOK
<1>11. \A d \in Clients : CarrierOK(d)'
  BY <1>1, <1>2, <1>4 DEF CarrierOK
<1>12. DestructorOK'
  BY <1>1, <1>2 DEF DestructorOK
<1> QED
  BY <1>6, <1>7, <1>8, <1>9, <1>10, <1>11, <1>12 DEF ReclaimerInv

(* What a batch holds changes for one batch.                               *)
LEMMA HeldChanges ==
  ASSUME ReclaimerInv, NEW b \in Batches, Held(b)' \in Nat,
         \A d \in Batches \ {b} : Held(d)' = Held(d)
  PROVE  /\ Total([d \in Batches |-> Held(d)']) \in Nat
         /\ Total([d \in Batches |-> Held(d)']) = Total([d \in Batches |-> Held(d)]) + Held(b)' - Held(b)
<1> DEFINE f == [d \in Batches |-> Held(d)]
           h == [d \in Batches |-> Held(d)']
<1>1. f \in [Batches -> Nat]
  BY HeldFacts
<1>2. h \in [Batches -> Nat]
  BY HeldFacts
<1>3. (\A x \in Batches \ {b} : h[x] = f[x]) /\ h[b] = Held(b)' /\ f[b] = Held(b)
  OBVIOUS
<1>4. IsFiniteSet(Batches)
  BY SlotsAreFinite
<1> HIDE DEF f, h
<1>5. Total(h) = Total(f) + h[b] - f[b]
  BY <1>1, <1>2, <1>3, <1>4, TotalChanged
<1>6. Total(h) \in Nat
  BY <1>2, <1>4, TotalOfNaturals
<1> QED
  BY <1>3, <1>5, <1>6 DEF f, h

LEMMA EnqueueStep ==
  ASSUME ReclaimerInv, NEW c \in Clients, NEW b \in Batches, Enqueue(c, b)
  PROVE  ReclaimerInv'
<1> USE DEF batchVars, workVars, counters
<1>1. ReclaimerTypeOK /\ PlacesOK /\ DestructorOK /\ WorkerOK /\ CompletedBatchesAreEmpty /\ ItemsOK
      /\ (\A d \in Batches : BatchOK(d)) /\ \A d \in Clients : CarrierOK(d)
  BY DEF ReclaimerInv
<1>2. /\ b \in live /\ b \notin sealed /\ dtor.at = "alive"
      /\ UNCHANGED <<pc, workLock, created, live, sealed, activated, completed, active,
                     workVars, outstanding, stopping, call, dtor>>
  BY DEF Enqueue, Accepts, Idle
<1>3. /\ pending' = [pending EXCEPT ![b] = @ + 1] /\ total' = [total EXCEPT ![b] = @ + 1]
      /\ deferred' = deferred + 1
  BY DEF Enqueue
<1>4. /\ pending'[b] = pending[b] + 1 /\ \A d \in Batches : d # b => pending'[d] = pending[d]
      /\ total'[b] = total[b] + 1 /\ \A d \in Slots : d # b => total'[d] = total[d]
  BY <1>1, <1>3, TypeFacts DEF ReclaimerTypeOK, Slots
<1>5. b \notin activated /\ queued[b] = 0 /\ taken[b] = 0
  BY <1>1, <1>2 DEF DestructorOK, BatchOK
<1>6. b \notin completed /\ b \in 1..created
  BY <1>1, <1>2 DEF CompletedBatchesAreEmpty
<1>7. \A d \in Batches : OnTheWay(d)' = OnTheWay(d)
  BY <1>2 DEF OnTheWay
<1>8. OnTheWay(b) = {}
  BY <1>1, <1>2 DEF CarrierOK, OnTheWay
<1>9. \A d \in Batches \ {b} : Held(d)' = Held(d)
  BY <1>2, <1>4, <1>7, HeldStays
<1>10. Held(b)' = Held(b) + 1 /\ Held(b) \in Nat /\ Held(b)' \in Nat
  <2>1. Held(b) = pending[b] /\ pending[b] \in Nat
    BY <1>8, HeldFacts, TypeFacts
  <2>2. Held(b)' = pending'[b] + Total([d \in OnTheWay(b)' |-> call'[d].items])
    BY DEF Held
  <2>3. Total([d \in OnTheWay(b)' |-> call'[d].items]) = 0
    BY <1>7, <1>8, CarriedItems
  <2> QED
    BY <1>4, <2>1, <2>2, <2>3
<1>11. deferred' = Total([d \in Batches |-> Held(d)']) /\ deferred' \in Nat
  <2>1. deferred = Total([d \in Batches |-> Held(d)]) /\ deferred \in Nat
    BY <1>1 DEF ItemsOK, ReclaimerTypeOK
  <2>2. Total([d \in Batches |-> Held(d)']) = Total([d \in Batches |-> Held(d)]) + Held(b)' - Held(b)
    BY <1>9, <1>10, HeldChanges
  <2> QED
    BY <1>3, <1>10, <2>1, <2>2
<1>12. ReclaimerTypeOK'
  <2>1. pending' \in [Batches -> Nat] /\ total' \in [Batches \cup {ReclaimAuto} -> Nat]
    BY <1>1, <1>3 DEF ReclaimerTypeOK
  <2> QED
    BY <1>1, <1>2, <1>11, <2>1 DEF ReclaimerTypeOK
<1>13. CompletedBatchesAreEmpty'
  BY <1>1, <1>2, <1>4, <1>6, TypeFacts DEF CompletedBatchesAreEmpty, ReclaimerTypeOK
<1>14. PlacesOK' /\ WorkerOK'
  BY <1>1, <1>2 DEF PlacesOK, WorkerOK
<1>15. ItemsOK'
  <2>1. \A d \in Slots : InHand(d)' = InHand(d) /\ queued'[d] = queued[d] /\ freed'[d] = freed[d]
    BY <1>2 DEF InHand
  <2>2. \A d \in Batches : d # b => total'[d] = Held(d)' + queued'[d] + InHand(d)' + freed'[d]
    BY <1>1, <1>4, <1>9, <2>1, TypeFacts DEF ItemsOK
  <2>3. total'[b] = Held(b)' + queued'[b] + InHand(b)' + freed'[b]
    BY <1>1, <1>4, <1>10, <2>1, TypeFacts DEF ItemsOK
  <2>4. total'[ReclaimAuto] = queued'[ReclaimAuto] + InHand(ReclaimAuto)' + freed'[ReclaimAuto]
    BY <1>1, <1>4, <2>1, TypeFacts DEF ItemsOK
  <2>5. outstanding' = Total(queued') + IF pc'[Worker] \in {"free", "count"} THEN Total(taken') ELSE 0
    BY <1>1, <1>2 DEF ItemsOK
  <2> QED
    BY <1>11, <2>2, <2>3, <2>4, <2>5 DEF ItemsOK
<1>16. \A d \in Batches : BatchOK(d)'
  <2> SUFFICES ASSUME NEW d \in Batches PROVE BatchOK(d)'
    OBVIOUS
  <2>1. BatchOK(d)
    BY <1>1
  <2>2. CASE d = b
    BY <1>2, <1>5, <1>6, <2>1, <2>2 DEF BatchOK
  <2>3. CASE d # b
    BY <1>2, <1>4, <2>1, <2>3, TypeFacts DEF BatchOK
  <2> QED
    BY <2>2, <2>3
<1>17. \A d \in Clients : CarrierOK(d)'
  <2> SUFFICES ASSUME NEW d \in Clients PROVE CarrierOK(d)'
    OBVIOUS
  <2>1. CarrierOK(d)
    BY <1>1
  <2>2. pc[d] = "publish" => call[d].batch # b /\ call[d].batch \in Batches
    BY <1>2, <2>1, TypeFacts DEF CarrierOK
  <2> QED
    BY <1>2, <1>4, <2>1, <2>2 DEF CarrierOK
<1>18. DestructorOK'
  BY <1>1, <1>2 DEF DestructorOK
<1> QED
  BY <1>12, <1>13, <1>14, <1>15, <1>16, <1>17, <1>18 DEF ReclaimerInv

LEMMA EnqueueAutoStep ==
  ASSUME ReclaimerInv, NEW c \in Clients, EnqueueAuto(c)
  PROVE  ReclaimerInv'
<1> USE DEF batchVars, workVars, counters
<1>1. ReclaimerTypeOK /\ PlacesOK /\ DestructorOK /\ WorkerOK /\ CompletedBatchesAreEmpty /\ ItemsOK
      /\ (\A d \in Batches : BatchOK(d)) /\ \A d \in Clients : CarrierOK(d)
  BY DEF ReclaimerInv
<1>2. /\ dtor.at = "alive"
      /\ UNCHANGED <<workLock, created, live, sealed, activated, completed, pending, active,
                     taken, freed, deferred, stopping, call, dtor>>
  BY DEF EnqueueAuto, Idle
<1>3. /\ queued' = [queued EXCEPT ![ReclaimAuto] = @ + 1] /\ total' = [total EXCEPT ![ReclaimAuto] = @ + 1]
      /\ outstanding' = outstanding + 1
  BY DEF EnqueueAuto
<1>4. /\ queued'[ReclaimAuto] = queued[ReclaimAuto] + 1 /\ total'[ReclaimAuto] = total[ReclaimAuto] + 1
      /\ \A d \in Batches : queued'[d] = queued[d] /\ total'[d] = total[d]
      /\ \A d \in Slots \ {ReclaimAuto} : queued'[d] = queued[d]
  BY <1>1, <1>3, TypeFacts DEF ReclaimerTypeOK, Slots
<1>5. Worker \notin Clients /\ Worker \in Threads /\ Clients \subseteq Threads /\ Threads = Clients \cup {Worker}
  BY TypeFacts DEF Threads
<1>6. \A u \in Threads : pc'[u] = pc[u] \/ (pc[u] = "asleep" /\ pc'[u] = Retry(u))
  BY <1>1 DEF EnqueueAuto, Asleep, ReclaimerTypeOK
<1>7. /\ pc'[Worker] = pc[Worker] \/ (pc[Worker] = "asleep" /\ pc'[Worker] = "loop")
      /\ \A d \in Clients : pc'[d] = pc[d] \/ (pc[d] = "asleep" /\ pc'[d] = "idle")
  BY <1>5, <1>6 DEF Retry
<1>8. stopping = FALSE
  BY <1>1, <1>2 DEF DestructorOK, ReclaimerTypeOK
<1>9. ReclaimerTypeOK'
  <2>1. queued' \in [Batches \cup {ReclaimAuto} -> Nat] /\ total' \in [Batches \cup {ReclaimAuto} -> Nat]
        /\ outstanding' \in Nat
    BY <1>1, <1>3 DEF ReclaimerTypeOK
  <2>2. pc' \in [Threads -> {"loop", "block", "asleep", "free", "count", "complete", "signal",
                             "sweep", "exit", "out", "publish", "find", "await", "idle"}]
    BY <1>1 DEF EnqueueAuto, Retry, ReclaimerTypeOK
  <2> QED
    BY <1>1, <1>2, <2>1, <2>2 DEF ReclaimerTypeOK
<1>10. CompletedBatchesAreEmpty'
  BY <1>1, <1>2, <1>4, TypeFacts DEF CompletedBatchesAreEmpty, ReclaimerTypeOK
<1>11. PlacesOK'
  BY <1>1, <1>7 DEF PlacesOK, WorkerPlaces, ClientPlaces
<1>12. WorkerOK'
  BY <1>1, <1>2, <1>7, <1>8 DEF WorkerOK
<1>13. \A d \in Batches : Held(d)' = Held(d)
  <2>1. \A d \in Batches : OnTheWay(d)' = OnTheWay(d)
    BY <1>2, <1>7 DEF OnTheWay
  <2> QED
    BY <1>2, <2>1, HeldStays
<1>14. ItemsOK'
  <2>1. \A d \in Slots : InHand(d)' = InHand(d) /\ freed'[d] = freed[d]
    BY <1>2, <1>7 DEF InHand
  <2>2. \A d \in Batches : total'[d] = Held(d)' + queued'[d] + InHand(d)' + freed'[d]
    BY <1>1, <1>4, <1>13, <2>1, TypeFacts DEF ItemsOK
  <2>3. total'[ReclaimAuto] = queued'[ReclaimAuto] + InHand(ReclaimAuto)' + freed'[ReclaimAuto]
    BY <1>1, <1>4, <2>1, TypeFacts DEF ItemsOK
  <2>4. Total(queued') = Total(queued) + 1
    <3>1. queued \in [Slots -> Nat] /\ queued' \in [Slots -> Nat] /\ IsFiniteSet(Slots) /\ ReclaimAuto \in Slots
      BY <1>1, <1>9, SlotsAreFinite DEF ReclaimerTypeOK, Slots
    <3>2. Total(queued') = Total(queued) + queued'[ReclaimAuto] - queued[ReclaimAuto]
      BY <1>4, <3>1, TotalChanged
    <3>3. queued[ReclaimAuto] \in Nat /\ Total(queued) \in Nat
      BY <3>1, TotalOfNaturals
    <3> QED
      BY <1>4, <3>2, <3>3
  <2>5. outstanding' = Total(queued') + IF pc'[Worker] \in {"free", "count"} THEN Total(taken') ELSE 0
    <3> DEFINE t == IF pc[Worker] \in {"free", "count"} THEN Total(taken) ELSE 0
    <3>1. t \in Nat
      <4>1. Total(taken) \in Nat
        BY <1>1, SlotsAreFinite, TotalOfNaturals DEF ReclaimerTypeOK, Slots
      <4> QED
        BY <4>1
    <3>2. Total(queued) \in Nat
      BY <1>1, SlotsAreFinite, TotalOfNaturals DEF ReclaimerTypeOK, Slots
    <3>3. outstanding = Total(queued) + t
      BY <1>1 DEF ItemsOK
    <3>4. (IF pc'[Worker] \in {"free", "count"} THEN Total(taken') ELSE 0) = t
      BY <1>2, <1>7
    <3> HIDE DEF t
    <3> QED
      BY <1>3, <2>4, <3>1, <3>2, <3>3, <3>4
  <2>6. deferred' = Total([d \in Batches |-> Held(d)'])
    <3>1. [d \in Batches |-> Held(d)'] = [d \in Batches |-> Held(d)]
      BY <1>13
    <3> QED
      BY <1>1, <1>2, <3>1 DEF ItemsOK
  <2> QED
    BY <2>2, <2>3, <2>5, <2>6 DEF ItemsOK
<1>15. \A d \in Batches : BatchOK(d)'
  BY <1>1, <1>2, <1>4 DEF BatchOK
<1>16. \A d \in Clients : CarrierOK(d)'
  <2> SUFFICES ASSUME NEW d \in Clients PROVE CarrierOK(d)'
    OBVIOUS
  <2>1. CarrierOK(d)
    BY <1>1
  <2>2. pc'[d] = "publish" => pc[d] = "publish" /\ call[d].batch \in Batches
    BY <1>7, <2>1, TypeFacts DEF CarrierOK
  <2>3. \A e \in Clients : pc'[e] = "publish" => pc[e] = "publish"
    BY <1>7
  <2>4. pc'[d] \in {"find", "await"} => pc[d] \in {"find", "await"}
    BY <1>7
  <2> QED
    BY <1>2, <1>4, <2>1, <2>2, <2>3, <2>4 DEF CarrierOK
<1>17. DestructorOK'
  BY <1>1, <1>2 DEF DestructorOK
<1> QED
  BY <1>9, <1>10, <1>11, <1>12, <1>14, <1>15, <1>16, <1>17 DEF ReclaimerInv

LEMMA SealBatchStep ==
  ASSUME ReclaimerInv, NEW c \in Clients, NEW b \in Batches, SealBatch(c, b)
  PROVE  ReclaimerInv'
<1> USE DEF batchVars, workVars, counters
<1>1. ReclaimerTypeOK /\ PlacesOK /\ DestructorOK /\ WorkerOK /\ CompletedBatchesAreEmpty /\ ItemsOK
      /\ (\A d \in Batches : BatchOK(d)) /\ \A d \in Clients : CarrierOK(d)
  BY DEF ReclaimerInv
<1>2. /\ b \in live /\ sealed' = sealed \cup {b} /\ dtor.at = "alive"
      /\ UNCHANGED <<pc, workLock, created, live, activated, completed, pending, active, total,
                     workVars, counters, stopping, call, dtor>>
  BY DEF SealBatch, Idle
<1>3. ReclaimerTypeOK'
  BY <1>1, <1>2 DEF ReclaimerTypeOK
<1>4. CompletedBatchesAreEmpty' /\ PlacesOK' /\ WorkerOK'
  BY <1>1, <1>2 DEF CompletedBatchesAreEmpty, PlacesOK, WorkerOK
<1>5. ItemsOK'
  <2>1. \A d \in Batches : Held(d)' = Held(d)
    BY <1>2, HeldStays DEF OnTheWay
  <2> QED
    BY <1>2, <2>1, ItemsStay
<1>6. \A d \in Batches : BatchOK(d)'
  BY <1>1, <1>2 DEF BatchOK
<1>7. \A d \in Clients : CarrierOK(d)'
  BY <1>1, <1>2 DEF CarrierOK
<1>8. DestructorOK'
  BY <1>1, <1>2 DEF DestructorOK
<1> QED
  BY <1>3, <1>4, <1>5, <1>6, <1>7, <1>8 DEF ReclaimerInv
-----------------------------------------------------------------------------
(* Activation: the items of a batch leave pending, travel with the client, *)
(* and are published.                                                      *)
LEMMA ActivateStep ==
  ASSUME ReclaimerInv, NEW c \in Clients, NEW b \in Batches, NEW drain \in BOOLEAN, Activate(c, b, drain)
  PROVE  ReclaimerInv'
<1> USE DEF batchVars, workVars, counters
<1> DEFINE first == b \in live \ activated
           n == pending[b]
           carried == IF first THEN n ELSE 0
           where == IF drain THEN "find" ELSE "out"
<1>1. ReclaimerTypeOK /\ PlacesOK /\ DestructorOK /\ WorkerOK /\ CompletedBatchesAreEmpty /\ ItemsOK
      /\ (\A d \in Batches : BatchOK(d)) /\ \A d \in Clients : CarrierOK(d)
  BY DEF ReclaimerInv
<1>2. /\ pc[c] = "out" /\ dtor.at = "alive" /\ b \in 1..created
      /\ sealed' = sealed \cup (live \cap {b}) /\ activated' = activated \cup (live \cap {b})
      /\ call' = [call EXCEPT ![c] = [batch |-> b, items |-> carried, drain |-> drain]]
      /\ UNCHANGED <<workLock, created, active, total, workVars, counters, stopping, dtor>>
  BY DEF Activate, Idle
<1>3. /\ first /\ n = 0 => completed' = completed \cup {b} /\ live' = live \ {b}
      /\ ~(first /\ n = 0) => UNCHANGED <<completed, live>>
      /\ first /\ n > 0 => pending' = [pending EXCEPT ![b] = 0] /\ Move(c, "publish")
      /\ ~(first /\ n > 0) => UNCHANGED pending /\ Move(c, where)
  BY DEF Activate
<1>4. Worker \notin Clients /\ c \in Threads /\ Clients \subseteq Threads
  BY TypeFacts
<1>5. n \in Nat /\ carried \in Nat /\ where \in {"find", "out"}
  BY TypeFacts
<1>6. /\ call'[c].batch = b /\ call'[c].items = carried
      /\ \A d \in Clients \ {c} : call'[d] = call[d]
  BY <1>1, <1>2 DEF ReclaimerTypeOK
<1>7. /\ \A u \in Threads \ {c} : pc'[u] = pc[u]
      /\ first /\ n > 0 => pc'[c] = "publish"
      /\ ~(first /\ n > 0) => pc'[c] = where
  BY <1>1, <1>3, <1>4 DEF Move, ReclaimerTypeOK
<1>8. /\ \A d \in Batches \ {b} : pending'[d] = pending[d]
      /\ first /\ n > 0 => pending'[b] = 0
      /\ ~(first /\ n > 0) => pending'[b] = n
  BY <1>1, <1>3 DEF ReclaimerTypeOK
<1>9. first => queued[b] = 0 /\ taken[b] = 0 /\ OnTheWay(b) = {} /\ b \notin completed
  BY <1>1 DEF BatchOK, CarrierOK, OnTheWay, CompletedBatchesAreEmpty
<1>10. activated \subseteq sealed
  BY <1>1, <1>2 DEF DestructorOK
<1> HIDE DEF n, carried, where
<1>11. ReclaimerTypeOK'
  <2>1. pending' \in [Batches -> Nat]
    BY <1>1, <1>3, <1>5 DEF ReclaimerTypeOK
  <2>2. pc' \in [Threads -> {"loop", "block", "asleep", "free", "count", "complete", "signal",
                             "sweep", "exit", "out", "publish", "find", "await", "idle"}]
    BY <1>1, <1>3, <1>5 DEF Move, ReclaimerTypeOK
  <2>3. call' \in [Clients -> [batch : Batches \cup {ReclaimAuto}, items : Nat, drain : BOOLEAN]]
    BY <1>1, <1>2, <1>5 DEF ReclaimerTypeOK
  <2>4. live' \subseteq 1..created /\ {sealed', activated', completed'} \subseteq SUBSET (1..created)
    <3>1. live \subseteq 1..created /\ sealed \subseteq 1..created /\ activated \subseteq 1..created
          /\ completed \subseteq 1..created
      BY <1>1 DEF ReclaimerTypeOK
    <3>2. live' \subseteq 1..created /\ completed' \subseteq 1..created
      BY <1>2, <1>3, <3>1
    <3>3. sealed' \subseteq 1..created /\ activated' \subseteq 1..created
      BY <1>2, <3>1
    <3> QED
      BY <3>2, <3>3
  <2> QED
    BY <1>1, <1>2, <2>1, <2>2, <2>3, <2>4 DEF ReclaimerTypeOK
<1>12. \A d \in Batches : Held(d)' = Held(d)
  <2>1. ASSUME NEW d \in Batches, d # b PROVE Held(d)' = Held(d)
    <3>1. OnTheWay(d)' = OnTheWay(d)
      BY <1>2, <1>4, <1>6, <1>7, <2>1 DEF OnTheWay
    <3>2. \A e \in OnTheWay(d) : call'[e].items = call[e].items
      BY <1>2, <1>6 DEF OnTheWay
    <3> QED
      BY <1>8, <2>1, <3>1, <3>2, HeldStays
  <2>2. CASE first /\ n > 0
    <3>1. OnTheWay(b)' = {c}
      BY <1>4, <1>6, <1>7, <1>9, <2>2 DEF OnTheWay
    <3>2. call'[c].items = n /\ pending'[b] = 0 /\ n \in Nat
      BY <1>5, <1>6, <1>8, <2>2 DEF carried
    <3>3. Total([e \in OnTheWay(b)' |-> call'[e].items]) = n
      BY <3>1, <3>2, CarriedItems
    <3>4. Held(b)' = n
      BY <3>2, <3>3 DEF Held
    <3>5. Held(b) = n
      BY <1>9, <2>2, HeldFacts DEF n
    <3> QED
      BY <2>1, <3>4, <3>5
  <2>3. CASE ~(first /\ n > 0)
    <3>1. OnTheWay(b)' = OnTheWay(b)
      <4>1. pc'[c] # "publish" /\ pc[c] # "publish"
        BY <1>2, <1>5, <1>7, <2>3
      <4> QED
        BY <1>4, <1>6, <1>7, <4>1 DEF OnTheWay
    <3>2. \A e \in OnTheWay(b) : call'[e].items = call[e].items
      BY <1>2, <1>6 DEF OnTheWay
    <3>3. pending'[b] = pending[b]
      BY <1>8, <2>3 DEF n
    <3>4. Held(b)' = Held(b)
      BY <3>1, <3>2, <3>3, HeldStays
    <3> QED
      BY <2>1, <3>4
  <2> QED
    BY <2>2, <2>3
<1>13. ItemsOK'
  <2>1. Worker \in Threads \ {c}
    BY <1>4, TypeFacts
  <2>2. pc'[Worker] = pc[Worker]
    BY <1>7, <2>1
  <2> QED
    BY <1>2, <1>12, <2>2, ItemsStay
<1>14. CompletedBatchesAreEmpty'
  <2>1. CASE first /\ n = 0
    <3>1. total[b] = freed[b]
      <4>1. Held(b) = n
        BY <1>9, <2>1, HeldFacts DEF n
      <4>2. InHand(b) = 0 /\ queued[b] = 0
        BY <1>9, <2>1 DEF InHand
      <4>3. total[b] = Held(b) + queued[b] + InHand(b) + freed[b]
        BY <1>1 DEF ItemsOK
      <4>4. freed[b] \in Nat
        BY TypeFacts
      <4> QED
        BY <2>1, <4>1, <4>2, <4>3, <4>4
    <3> QED
      BY <1>1, <1>2, <1>3, <2>1, <3>1 DEF CompletedBatchesAreEmpty
  <2>2. CASE ~(first /\ n = 0)
    BY <1>1, <1>2, <1>3, <2>2 DEF CompletedBatchesAreEmpty
  <2> QED
    BY <2>1, <2>2
<1>15. PlacesOK'
  <2>1. pc'[Worker] = pc[Worker]
    BY <1>4, <1>7, TypeFacts
  <2>2. \A d \in Clients : pc'[d] = pc[d] \/ pc'[d] \in {"publish", "find", "out"}
    BY <1>4, <1>5, <1>7
  <2> QED
    BY <1>1, <2>1, <2>2 DEF PlacesOK, ClientPlaces
<1>16. WorkerOK'
  <2>1. pc'[Worker] = pc[Worker]
    BY <1>4, <1>7, TypeFacts
  <2> QED
    BY <1>1, <1>2, <2>1 DEF WorkerOK
<1>17. \A d \in Batches : BatchOK(d)'
  <2> SUFFICES ASSUME NEW d \in Batches PROVE BatchOK(d)'
    OBVIOUS
  <2>1. BatchOK(d) /\ pending[d] \in Nat
    BY <1>1, TypeFacts
  <2>2. CASE d # b
    <3>1. /\ pending'[d] = pending[d] /\ (d \in live' <=> d \in live)
          /\ (d \in activated' <=> d \in activated) /\ (d \in completed' <=> d \in completed)
      BY <1>2, <1>3, <1>8, <2>2
    <3> QED
      BY <1>2, <2>1, <3>1 DEF BatchOK
  <2>3. CASE d = b /\ first
    <3>1. pending'[b] = 0
      BY <1>5, <1>8, <2>3
    <3>2. queued'[b] = 0 /\ taken'[b] = 0
      BY <1>2, <1>9, <2>3
    <3>3. active'[b] = 0
      BY <1>2, <1>9, <2>1, <2>3 DEF BatchOK
    <3> QED
      BY <1>2, <2>1, <2>3, <3>1, <3>2, <3>3 DEF BatchOK
  <2>4. CASE d = b /\ ~first
    <3>1. /\ pending'[b] = pending[b] /\ live' = live /\ completed' = completed
          /\ activated' = activated
      BY <1>2, <1>3, <1>8, <2>4 DEF n
    <3> QED
      BY <1>2, <2>1, <2>4, <3>1 DEF BatchOK
  <2> QED
    BY <2>2, <2>3, <2>4
<1>18. \A d \in Clients : CarrierOK(d)'
  <2>1. ASSUME NEW d \in Clients \ {c} PROVE CarrierOK(d)'
    <3>1. CarrierOK(d) /\ pc'[d] = pc[d] /\ call'[d] = call[d]
      BY <1>1, <1>4, <1>6, <1>7
    <3>2. ASSUME pc[d] = "publish"
          PROVE  LET e == call[d].batch
                 IN  /\ e \in live' /\ e \in sealed' /\ e \in activated'
                     /\ pending'[e] = 0 /\ queued'[e] = 0 /\ taken'[e] = 0
                     /\ \A u \in Clients : pc'[u] = "publish" /\ call'[u].batch = e => u = d
      <4> DEFINE e == call[d].batch
      <4>1. e \in live /\ e \in sealed /\ e \in activated /\ e \in Batches
            /\ pending[e] = 0 /\ queued[e] = 0 /\ taken[e] = 0
            /\ \A u \in Clients : pc[u] = "publish" /\ call[u].batch = e => u = d
        BY <3>1, <3>2, TypeFacts DEF CarrierOK
      <4> HIDE DEF e
      <4>2. first => e # b
        BY <4>1
      <4>3. e \in live' /\ pending'[e] = 0
        <5>1. CASE first
          BY <1>3, <1>8, <4>1, <4>2, <5>1
        <5>2. CASE ~first
          BY <1>3, <4>1, <5>2
        <5> QED
          BY <5>1, <5>2
      <4>4. \A u \in Clients : pc'[u] = "publish" /\ call'[u].batch = e => u = d
        <5>1. pc'[c] = "publish" => first
          BY <1>5, <1>7
        <5>2. \A u \in Clients \ {c} : pc'[u] = pc[u] /\ call'[u] = call[u]
          BY <1>4, <1>6, <1>7
        <5> QED
          BY <1>6, <4>1, <4>2, <5>1, <5>2
      <4> QED
        BY <1>2, <4>1, <4>3, <4>4 DEF e
    <3>3. pc[d] \in {"find", "await"} => call[d].batch \in 1..created
      BY <3>1 DEF CarrierOK
    <3> QED
      BY <1>2, <3>1, <3>2, <3>3 DEF CarrierOK
  <2>2. CarrierOK(c)'
    <3>1. CASE first /\ n > 0
      <4>1. b \in live' /\ b \in sealed' /\ b \in activated' /\ pending'[b] = 0 /\ queued'[b] = 0 /\ taken'[b] = 0
        BY <1>2, <1>3, <1>8, <1>9, <3>1
      <4>2. \A u \in Clients : pc'[u] = "publish" /\ call'[u].batch = b => u = c
        BY <1>4, <1>6, <1>7, <1>9, <3>1 DEF OnTheWay
      <4> QED
        BY <1>6, <1>7, <3>1, <4>1, <4>2 DEF CarrierOK
    <3>2. CASE ~(first /\ n > 0)
      BY <1>2, <1>5, <1>6, <1>7, <3>2 DEF CarrierOK
    <3> QED
      BY <3>1, <3>2
  <2> QED
    BY <2>1, <2>2
<1>19. DestructorOK'
  <2>1. activated' \subseteq sealed'
    BY <1>2, <1>10
  <2> QED
    BY <1>1, <1>2, <2>1 DEF DestructorOK
<1> QED
  BY <1>11, <1>13, <1>14, <1>15, <1>16, <1>17, <1>18, <1>19 DEF ReclaimerInv

(* Publishing what a live batch holds back: the two counters stay right.   *)
LEMMA PublishFacts ==
  ASSUME ReclaimerInv, NEW b \in Batches, b \in live, queued[b] = 0, taken[b] = 0,
         Publish(b, Held(b)), Held(b)' = 0, \A d \in Batches \ {b} : Held(d)' = Held(d),
         UNCHANGED <<total, taken, freed>>,
         pc'[Worker] = "free" <=> pc[Worker] = "free",
         pc'[Worker] \in {"free", "count"} <=> pc[Worker] \in {"free", "count"}
  PROVE  /\ ItemsOK'
         /\ queued' \in [Slots -> Nat] /\ active' \in [Batches -> Nat]
         /\ deferred' \in Nat /\ outstanding' \in Nat
         /\ active'[b] = queued'[b] + taken'[b]
         /\ \A d \in Batches \ {b} : queued'[d] = queued[d] /\ active'[d] = active[d]
<1> DEFINE n == Held(b)
           t == IF pc[Worker] \in {"free", "count"} THEN Total(taken) ELSE 0
<1>1. ReclaimerTypeOK /\ ItemsOK /\ BatchOK(b)
  BY DEF ReclaimerInv
<1>2. n \in Nat /\ b \in Slots /\ ReclaimAuto # b
  BY HeldFacts, TypeFacts
<1>3. /\ queued' = [queued EXCEPT ![b] = @ + n] /\ active' = [active EXCEPT ![b] = @ + n]
      /\ outstanding' = outstanding + n /\ deferred' = deferred - n
  BY DEF Publish
<1>4. /\ Total([d \in Batches |-> Held(d)']) \in Nat
      /\ Total([d \in Batches |-> Held(d)']) = Total([d \in Batches |-> Held(d)]) + Held(b)' - n
  <2>1. Held(b)' \in Nat
    OBVIOUS
  <2> QED
    BY <2>1, HeldChanges
<1>5. t \in Nat /\ Total(queued) \in Nat /\ outstanding = Total(queued) + t
  <2>1. taken \in [Slots -> Nat] /\ queued \in [Slots -> Nat] /\ IsFiniteSet(Slots)
    BY <1>1, SlotsAreFinite DEF ReclaimerTypeOK, Slots
  <2>2. Total(taken) \in Nat /\ Total(queued) \in Nat
    BY <2>1, TotalOfNaturals
  <2> QED
    BY <1>1, <2>2 DEF ItemsOK
<1>6. t = IF pc'[Worker] \in {"free", "count"} THEN Total(taken') ELSE 0
  OBVIOUS
<1> HIDE DEF n, t
<1>7. deferred' = Total([d \in Batches |-> Held(d)']) /\ deferred' \in Nat
  <2>1. deferred = Total([d \in Batches |-> Held(d)]) /\ deferred \in Nat
    BY <1>1 DEF ItemsOK, ReclaimerTypeOK
  <2> QED
    BY <1>2, <1>3, <1>4, <2>1
<1>8. queued' \in [Slots -> Nat] /\ active' \in [Batches -> Nat] /\ outstanding' \in Nat
  BY <1>1, <1>2, <1>3 DEF ReclaimerTypeOK, Slots
<1>9. /\ queued'[b] = n /\ \A d \in Slots \ {b} : queued'[d] = queued[d]
  BY <1>1, <1>2, <1>3 DEF ReclaimerTypeOK, Slots
<1>10. /\ active'[b] = active[b] + n /\ \A d \in Batches \ {b} : active'[d] = active[d]
  BY <1>1, <1>2, <1>3 DEF ReclaimerTypeOK
<1>11. active'[b] = queued'[b] + taken'[b]
  BY <1>1, <1>2, <1>9, <1>10 DEF BatchOK
<1>12. outstanding' = Total(queued') + t
  <2>1. queued \in [Slots -> Nat] /\ IsFiniteSet(Slots)
    BY <1>1, SlotsAreFinite DEF ReclaimerTypeOK, Slots
  <2>2. Total(queued') = Total(queued) + queued'[b] - queued[b]
    BY <1>2, <1>8, <1>9, <2>1, TotalChanged
  <2> QED
    BY <1>2, <1>3, <1>5, <1>9, <2>2
<1>13. \A d \in Slots : InHand(d)' = InHand(d) /\ total'[d] = total[d] /\ freed'[d] = freed[d]
  BY DEF InHand
<1>14. total'[b] = Held(b)' + queued'[b] + InHand(b)' + freed'[b]
  <2>1. total[b] = n + queued[b] + InHand(b) + freed[b]
    BY <1>1 DEF ItemsOK, n
  <2>2. InHand(b) \in Nat /\ freed[b] \in Nat
    BY <1>2, TypeFacts
  <2> QED
    BY <1>2, <1>9, <1>13, <2>1, <2>2
<1>15. \A d \in Batches \ {b} : total'[d] = Held(d)' + queued'[d] + InHand(d)' + freed'[d]
  BY <1>1, <1>9, <1>13, TypeFacts DEF ItemsOK
<1>16. total'[ReclaimAuto] = queued'[ReclaimAuto] + InHand(ReclaimAuto)' + freed'[ReclaimAuto]
  BY <1>1, <1>2, <1>9, <1>13, TypeFacts DEF ItemsOK
<1>17. ItemsOK'
  <2>1. \A d \in Batches : total'[d] = Held(d)' + queued'[d] + InHand(d)' + freed'[d]
    BY <1>14, <1>15
  <2> QED
    BY <1>6, <1>7, <1>12, <1>16, <2>1 DEF ItemsOK
<1> QED
  BY <1>7, <1>8, <1>9, <1>10, <1>11, <1>17, TypeFacts
LEMMA ActivatePublishStep ==
  ASSUME ReclaimerInv, NEW c \in Clients, ActivatePublish(c)
  PROVE  ReclaimerInv'
<1> USE DEF batchVars, workVars, counters
<1>0. PICK b : b = call[c].batch
  OBVIOUS
<1> DEFINE where == IF call[c].drain THEN "find" ELSE "out"
<1>1. ReclaimerTypeOK /\ PlacesOK /\ DestructorOK /\ WorkerOK /\ CompletedBatchesAreEmpty /\ ItemsOK
      /\ (\A d \in Batches : BatchOK(d)) /\ \A d \in Clients : CarrierOK(d)
  BY DEF ReclaimerInv
<1>2. /\ pc[c] = "publish" /\ call[c].batch = b /\ Publish(b, call[c].items) /\ WakeAllAnd(c, where)
      /\ UNCHANGED <<workLock, created, live, sealed, activated, completed, pending, total,
                     taken, freed, stopping, call, dtor>>
  BY <1>0 DEF ActivatePublish
<1>3. Worker \notin Clients /\ Worker \in Threads /\ Clients \subseteq Threads /\ Threads = Clients \cup {Worker}
  BY TypeFacts DEF Threads
<1>4. /\ b \in live /\ b \in activated /\ b \in Batches /\ b \in 1..created
      /\ pending[b] = 0 /\ queued[b] = 0 /\ taken[b] = 0
      /\ \A d \in Clients : pc[d] = "publish" /\ call[d].batch = b => d = c
  BY <1>1, <1>2, TypeFacts DEF CarrierOK
<1>5. dtor.at = "alive"
  BY <1>1, <1>2 DEF DestructorOK
<1>6. where \in {"find", "out"}
  OBVIOUS
<1> HIDE DEF where
<1>7. /\ pc'[c] = where
      /\ \A u \in Threads : u # c => pc'[u] = IF pc[u] = "asleep" THEN Retry(u) ELSE pc[u]
  BY <1>2, <1>3 DEF WakeAllAnd, Asleep
<1>8. /\ pc'[Worker] = pc[Worker] \/ (pc[Worker] = "asleep" /\ pc'[Worker] = "loop")
      /\ \A d \in Clients : d # c => pc'[d] = pc[d] \/ (pc[d] = "asleep" /\ pc'[d] = "idle")
  BY <1>3, <1>7 DEF Retry
<1>9. OnTheWay(b)' = {} /\ \A d \in Batches \ {b} : OnTheWay(d)' = OnTheWay(d)
  <2>1. \A d \in Clients : pc'[d] = "publish" <=> pc[d] = "publish" /\ d # c
    BY <1>6, <1>7, <1>8
  <2>2. OnTheWay(b)' = {}
    BY <1>2, <1>4, <2>1 DEF OnTheWay
  <2>3. \A d \in Batches \ {b} : OnTheWay(d)' = OnTheWay(d)
    BY <1>2, <2>1 DEF OnTheWay
  <2> QED
    BY <2>2, <2>3
<1>10. Held(b)' = 0 /\ \A d \in Batches \ {b} : Held(d)' = Held(d)
  <2>1. Total([d \in OnTheWay(b)' |-> call'[d].items]) = 0
    BY <1>9, CarriedItems
  <2>2. Held(b)' = 0
    BY <1>2, <1>4, <2>1 DEF Held
  <2>3. \A d \in Batches \ {b} : Held(d)' = Held(d)
    BY <1>2, <1>9, HeldStays
  <2> QED
    BY <2>2, <2>3
<1>11. Held(b) = call[c].items
  BY <1>2, <1>4, HeldFacts
<1>12. Publish(b, Held(b))
  BY <1>2, <1>11
<1>13. /\ pc'[Worker] = "free" <=> pc[Worker] = "free"
       /\ pc'[Worker] \in {"free", "count"} <=> pc[Worker] \in {"free", "count"}
  BY <1>8
<1>14. /\ ItemsOK'
       /\ queued' \in [Slots -> Nat] /\ active' \in [Batches -> Nat]
       /\ deferred' \in Nat /\ outstanding' \in Nat
       /\ active'[b] = queued'[b] + taken'[b]
       /\ \A d \in Batches \ {b} : queued'[d] = queued[d] /\ active'[d] = active[d]
  <2>1. UNCHANGED <<total, taken, freed>>
    BY <1>2
  <2> QED
    BY <1>4, <1>10, <1>12, <1>13, <2>1, PublishFacts
<1>15. ReclaimerTypeOK'
  <2>1. pc' \in [Threads -> {"loop", "block", "asleep", "free", "count", "complete", "signal",
                             "sweep", "exit", "out", "publish", "find", "await", "idle"}]
    BY <1>1, <1>2, <1>6 DEF WakeAllAnd, Asleep, Retry, ReclaimerTypeOK
  <2>2. {pending', active'} \subseteq [Batches -> Nat]
    BY <1>1, <1>2, <1>14 DEF ReclaimerTypeOK
  <2>3. {total', queued', taken', freed'} \subseteq [Batches \cup {ReclaimAuto} -> Nat]
    BY <1>1, <1>2, <1>14 DEF ReclaimerTypeOK, Slots
  <2> QED
    BY <1>1, <1>2, <1>14, <2>1, <2>2, <2>3 DEF ReclaimerTypeOK
<1>16. CompletedBatchesAreEmpty'
  BY <1>1, <1>2 DEF CompletedBatchesAreEmpty
<1>17. PlacesOK'
  <2>1. \A d \in Clients : pc'[d] \in ClientPlaces
    BY <1>1, <1>6, <1>7, <1>8 DEF PlacesOK, ClientPlaces
  <2> QED
    BY <1>1, <1>8, <2>1 DEF PlacesOK, WorkerPlaces
<1>18. WorkerOK'
  <2>1. pc'[Worker] \notin {"sweep", "exit"}
    BY <1>1, <1>5, <1>8 DEF WorkerOK, DestructorOK
  <2> QED
    BY <1>1, <1>2, <1>8, <2>1 DEF WorkerOK
<1>19. \A d \in Batches : BatchOK(d)'
  <2> SUFFICES ASSUME NEW d \in Batches PROVE BatchOK(d)'
    OBVIOUS
  <2>1. BatchOK(d)
    BY <1>1
  <2>2. CASE d = b
    <3>1. pending'[b] = 0 /\ b \in activated' /\ b \in 1..created'
      BY <1>2, <1>4
    <3> QED
      BY <1>2, <1>14, <2>1, <2>2, <3>1 DEF BatchOK
  <2>3. CASE d # b
    BY <1>2, <1>14, <2>1, <2>3 DEF BatchOK
  <2> QED
    BY <2>2, <2>3
<1>20. \A d \in Clients : CarrierOK(d)'
  <2> SUFFICES ASSUME NEW d \in Clients PROVE CarrierOK(d)'
    OBVIOUS
  <2>1. CarrierOK(d)
    BY <1>1
  <2>2. CASE d = c
    <3>1. pc'[c] \in {"find", "out"} /\ call'[c].batch \in 1..created'
      BY <1>2, <1>4, <1>6, <1>7
    <3> QED
      BY <2>2, <3>1 DEF CarrierOK
  <2>3. CASE d # c
    <3>1. \A e \in Clients : pc'[e] = "publish" => pc[e] = "publish"
      BY <1>6, <1>7, <1>8
    <3>2. pc[d] = "publish" => call[d].batch \in Batches \ {b}
      BY <1>4, <2>1, <2>3, TypeFacts DEF CarrierOK
    <3>3. pc'[d] \in {"find", "await"} => pc[d] \in {"find", "await"}
      BY <1>8, <2>3
    <3> QED
      BY <1>2, <1>14, <2>1, <3>1, <3>2, <3>3 DEF CarrierOK
  <2> QED
    BY <2>2, <2>3
<1>21. DestructorOK'
  BY <1>1, <1>2, <1>5 DEF DestructorOK
<1> QED
  BY <1>14, <1>15, <1>16, <1>17, <1>18, <1>19, <1>20, <1>21 DEF ReclaimerInv

(* The destructor publishes what a batch that nobody activated holds back. *)
LEMMA DestructorPublishStep ==
  ASSUME ReclaimerInv, DestructorPublish
  PROVE  ReclaimerInv'
<1> USE DEF batchVars, workVars, counters
<1>0. PICK b : b = dtor.batch
  OBVIOUS
<1>1. ReclaimerTypeOK /\ PlacesOK /\ DestructorOK /\ WorkerOK /\ CompletedBatchesAreEmpty /\ ItemsOK
      /\ (\A d \in Batches : BatchOK(d)) /\ \A d \in Clients : CarrierOK(d)
  BY DEF ReclaimerInv
<1>2. /\ dtor.at = "publish" /\ dtor.batch = b /\ Publish(b, pending[b])
      /\ pending' = [pending EXCEPT ![b] = 0] /\ dtor' = [dtor EXCEPT !.at = "relock"]
      /\ UNCHANGED <<pc, workLock, created, live, sealed, activated, completed, total,
                     taken, freed, stopping, call>>
  BY <1>0 DEF DestructorPublish
<1>3. b \in live /\ b \in activated /\ b \in dtor.visited /\ b \in Batches /\ b \in 1..created
      /\ pending[b] > 0 /\ ~stopping
  BY <1>1, <1>2, TypeFacts DEF DestructorOK
<1>4. queued[b] = 0 /\ taken[b] = 0
  BY <1>1, <1>3 DEF BatchOK
<1>5. (\A c \in Clients : pc[c] = "out") /\ \A d : OnTheWay(d) = {}
  BY <1>2, NobodyCarries
<1>6. dtor'.at = "relock" /\ dtor'.visited = dtor.visited /\ dtor'.batch = b
  BY <1>1, <1>2 DEF ReclaimerTypeOK
<1>7. pending'[b] = 0 /\ \A d \in Batches \ {b} : pending'[d] = pending[d]
  BY <1>1, <1>2, <1>3 DEF ReclaimerTypeOK
<1>8. \A d : OnTheWay(d)' = {}
  BY <1>2, <1>5 DEF OnTheWay
<1>9. Held(b)' = 0 /\ \A d \in Batches \ {b} : Held(d)' = Held(d)
  <2>1. Total([d \in OnTheWay(b)' |-> call'[d].items]) = 0
    BY <1>8, CarriedItems
  <2>2. Held(b)' = 0
    BY <1>7, <2>1 DEF Held
  <2>3. \A d \in Batches \ {b} : Held(d)' = Held(d)
    BY <1>2, <1>5, <1>7, <1>8, HeldStays
  <2> QED
    BY <2>2, <2>3
<1>10. Publish(b, Held(b))
  <2>1. Held(b) = pending[b]
    BY <1>3, <1>5, HeldFacts
  <2> QED
    BY <1>2, <2>1
<1>11. /\ ItemsOK'
       /\ queued' \in [Slots -> Nat] /\ active' \in [Batches -> Nat]
       /\ deferred' \in Nat /\ outstanding' \in Nat
       /\ active'[b] = queued'[b] + taken'[b]
       /\ \A d \in Batches \ {b} : queued'[d] = queued[d] /\ active'[d] = active[d]
  <2>1. UNCHANGED <<total, taken, freed>> /\ pc' = pc
    BY <1>2
  <2> QED
    BY <1>3, <1>4, <1>9, <1>10, <2>1, PublishFacts
<1>12. ReclaimerTypeOK'
  <2>1. {pending', active'} \subseteq [Batches -> Nat]
    <3>1. pending \in [Batches -> Nat]
      BY <1>1 DEF ReclaimerTypeOK
    <3>2. pending' \in [Batches -> Nat]
      BY <1>2, <3>1
    <3> QED
      BY <1>11, <3>2
  <2>2. {total', queued', taken', freed'} \subseteq [Batches \cup {ReclaimAuto} -> Nat]
    BY <1>1, <1>2, <1>11 DEF ReclaimerTypeOK, Slots
  <2> QED
    BY <1>1, <1>2, <1>11, <2>1, <2>2 DEF ReclaimerTypeOK
<1>13. CompletedBatchesAreEmpty' /\ PlacesOK'
  BY <1>1, <1>2 DEF CompletedBatchesAreEmpty, PlacesOK
<1>14. WorkerOK'
  BY <1>1, <1>2, <1>3 DEF WorkerOK
<1>15. \A d \in Batches : BatchOK(d)'
  <2> SUFFICES ASSUME NEW d \in Batches PROVE BatchOK(d)'
    OBVIOUS
  <2>1. BatchOK(d)
    BY <1>1
  <2>2. CASE d = b
    <3>1. pending'[b] = 0 /\ b \in activated' /\ b \in 1..created'
      BY <1>2, <1>3, <1>7
    <3> QED
      BY <1>2, <1>11, <2>1, <2>2, <3>1 DEF BatchOK
  <2>3. CASE d # b
    <3>1. ~(d \in activated' /\ pending'[d] > 0)
      BY <1>2, <1>7, <2>1, <2>3 DEF BatchOK
    <3> QED
      BY <1>2, <1>7, <1>11, <2>1, <2>3, <3>1 DEF BatchOK
  <2> QED
    BY <2>2, <2>3
<1>16. \A d \in Clients : CarrierOK(d)'
  BY <1>2, <1>5 DEF CarrierOK
<1>17. DestructorOK'
  <2>1. \A d \in dtor'.visited : pending'[d] = 0
    BY <1>1, <1>2, <1>6, <1>7 DEF DestructorOK, ReclaimerTypeOK
  <2>2. \A c \in Clients : pc'[c] = "out"
    BY <1>2, <1>5
  <2> QED
    BY <1>2, <1>3, <1>6, <2>1, <2>2 DEF DestructorOK
<1> QED
  BY <1>11, <1>12, <1>13, <1>14, <1>15, <1>16, <1>17 DEF ReclaimerInv
-----------------------------------------------------------------------------
(* The worker's round.  While it runs nothing that a client or the         *)
(* destructor holds changes.                                               *)
LEMMA WorkerMoves ==
  ASSUME ReclaimerInv, NEW place, Move(Worker, place),
         UNCHANGED <<pending, call>>
  PROVE  /\ pc'[Worker] = place /\ \A c \in Clients : pc'[c] = pc[c]
         /\ \A b \in Batches : OnTheWay(b)' = OnTheWay(b) /\ Held(b)' = Held(b)
         /\ [b \in Batches |-> Held(b)'] = [b \in Batches |-> Held(b)]
<1>1. Worker \notin Clients /\ Worker \in Threads /\ Clients \subseteq Threads
  BY TypeFacts
<1>2. pc'[Worker] = place /\ \A c \in Clients : pc'[c] = pc[c]
  BY <1>1 DEF Move, ReclaimerInv, ReclaimerTypeOK
<1>3. \A b \in Batches : OnTheWay(b)' = OnTheWay(b)
  BY <1>2 DEF OnTheWay
<1>4. \A b \in Batches : Held(b)' = Held(b)
  BY <1>3, HeldStays
<1> QED
  BY <1>2, <1>3, <1>4

LEMMA TotalTypes ==
  ASSUME ReclaimerInv
  PROVE  /\ queued \in [Slots -> Nat] /\ taken \in [Slots -> Nat]
         /\ total \in [Slots -> Nat] /\ freed \in [Slots -> Nat]
         /\ Total(queued) \in Nat /\ Total(taken) \in Nat
         /\ Total(queued) = 0 <=> \A b \in Slots : queued[b] = 0
         /\ IsFiniteSet(Slots)
<1>1. /\ queued \in [Slots -> Nat] /\ taken \in [Slots -> Nat] /\ IsFiniteSet(Slots)
      /\ total \in [Slots -> Nat] /\ freed \in [Slots -> Nat]
  BY SlotsAreFinite DEF ReclaimerInv, ReclaimerTypeOK, Slots
<1>2. Total(queued) \in Nat /\ Total(taken) \in Nat
  BY <1>1, TotalOfNaturals
<1>3. Total(queued) = 0 <=> \A b \in Slots : queued[b] = 0
  BY <1>1, TotalZero
<1> QED
  BY <1>1, <1>2, <1>3

LEMMA CheckWorkStep ==
  ASSUME ReclaimerInv, CheckWork
  PROVE  ReclaimerInv'
<1> USE DEF batchVars, workVars, counters
<1>1. ReclaimerTypeOK /\ PlacesOK /\ DestructorOK /\ WorkerOK /\ CompletedBatchesAreEmpty /\ ItemsOK
      /\ (\A d \in Batches : BatchOK(d)) /\ \A d \in Clients : CarrierOK(d)
  BY DEF ReclaimerInv
<1>2. pc[Worker] = "loop" /\ workLock = Free
      /\ UNCHANGED <<batchVars, freed, counters, stopping, call, dtor>>
  BY DEF CheckWork
<1>3. Worker \in Threads /\ Worker \notin Clients /\ Clients \subseteq Threads
  BY TypeFacts
<1>4. \A b \in Slots : taken[b] = 0
  BY <1>1, <1>2 DEF WorkerOK
<1>5. ASSUME ~stopping, Total(queued) = 0, Move(Worker, "block"), workLock' = Worker,
             UNCHANGED <<queued, taken>>
      PROVE  ReclaimerInv'
  <2>1. UNCHANGED <<batchVars, workVars, counters, stopping, call, dtor>>
    BY <1>2, <1>5
  <2> QED
    BY <1>2, <1>3, <1>5, <2>1, QuietMove
<1>6. ASSUME MustExit, Move(Worker, "sweep"), UNCHANGED <<workLock, queued, taken>>
      PROVE  ReclaimerInv'
  <2>1. /\ pc'[Worker] = "sweep" /\ \A c \in Clients : pc'[c] = pc[c]
        /\ \A b \in Batches : Held(b)' = Held(b)
    BY <1>2, <1>6, WorkerMoves
  <2>2. stopping /\ \A b \in Slots : queued[b] = 0
    BY <1>6, TotalTypes DEF MustExit
  <2>3. ReclaimerTypeOK'
    <3>1. pc' \in [Threads -> {"loop", "block", "asleep", "free", "count", "complete", "signal",
                               "sweep", "exit", "out", "publish", "find", "await", "idle"}]
      BY <1>1, <1>6 DEF Move, ReclaimerTypeOK
    <3> QED
      BY <1>1, <1>2, <1>6, <3>1 DEF ReclaimerTypeOK
  <2>4. CompletedBatchesAreEmpty'
    BY <1>1, <1>2 DEF CompletedBatchesAreEmpty
  <2>5. PlacesOK'
    BY <1>1, <2>1 DEF PlacesOK, WorkerPlaces
  <2>6. ItemsOK'
    BY <1>2, <1>6, <2>1, ItemsStay
  <2>7. WorkerOK'
    BY <1>1, <1>2, <1>4, <1>6, <2>1, <2>2 DEF WorkerOK
  <2>8. \A d \in Batches : BatchOK(d)'
    BY <1>1, <1>2, <1>6 DEF BatchOK
  <2>9. \A d \in Clients : CarrierOK(d)'
    BY <1>1, <1>2, <1>6, <2>1 DEF CarrierOK
  <2>10. DestructorOK'
    BY <1>2, <2>1, DestructorStays
  <2> QED
    BY <2>3, <2>4, <2>5, <2>6, <2>7, <2>8, <2>9, <2>10 DEF ReclaimerInv
<1>7. ASSUME taken' = queued, queued' = [b \in DOMAIN queued |-> 0], Move(Worker, "free"),
             UNCHANGED workLock
      PROVE  ReclaimerInv'
  <2>1. /\ pc'[Worker] = "free" /\ \A c \in Clients : pc'[c] = pc[c]
        /\ \A b \in Batches : Held(b)' = Held(b)
        /\ [b \in Batches |-> Held(b)'] = [b \in Batches |-> Held(b)]
    BY <1>2, <1>7, WorkerMoves
  <2>2. /\ queued \in [Slots -> Nat] /\ queued' \in [Slots -> Nat] /\ taken' \in [Slots -> Nat]
        /\ \A b \in Slots : queued'[b] = 0 /\ taken'[b] = queued[b]
        /\ Total(queued) \in Nat /\ IsFiniteSet(Slots)
    BY <1>7, TotalTypes
  <2>3. ReclaimerTypeOK'
    <3>1. pc' \in [Threads -> {"loop", "block", "asleep", "free", "count", "complete", "signal",
                               "sweep", "exit", "out", "publish", "find", "await", "idle"}]
      BY <1>1, <1>7 DEF Move, ReclaimerTypeOK
    <3> QED
      BY <1>1, <1>2, <1>7, <2>2, <3>1 DEF ReclaimerTypeOK, Slots
  <2>4. CompletedBatchesAreEmpty'
    BY <1>1, <1>2 DEF CompletedBatchesAreEmpty
  <2>5. PlacesOK'
    BY <1>1, <2>1 DEF PlacesOK, WorkerPlaces
  <2>6. ItemsOK'
    <3>1. \A b \in Slots : InHand(b) = 0 /\ InHand(b)' = queued[b] /\ freed'[b] = freed[b]
                           /\ total'[b] = total[b] /\ queued'[b] = 0
      BY <1>2, <2>1, <2>2 DEF InHand
    <3>2. \A b \in Batches : total'[b] = Held(b)' + queued'[b] + InHand(b)' + freed'[b]
      <4> SUFFICES ASSUME NEW b \in Batches
                   PROVE  total'[b] = Held(b)' + queued'[b] + InHand(b)' + freed'[b]
        OBVIOUS
      <4>1. total[b] = Held(b) + queued[b] + InHand(b) + freed[b]
        BY <1>1 DEF ItemsOK
      <4>2. b \in Slots /\ Held(b) \in Nat /\ queued[b] \in Nat /\ freed[b] \in Nat
        BY TypeFacts, HeldFacts
      <4> QED
        BY <2>1, <3>1, <4>1, <4>2
    <3>3. total'[ReclaimAuto] = queued'[ReclaimAuto] + InHand(ReclaimAuto)' + freed'[ReclaimAuto]
      BY <1>1, <3>1, TypeFacts DEF ItemsOK
    <3>4. deferred' = Total([b \in Batches |-> Held(b)'])
      BY <1>1, <1>2, <2>1 DEF ItemsOK
    <3>5. outstanding' = Total(queued') + IF pc'[Worker] \in {"free", "count"} THEN Total(taken') ELSE 0
      <4>1. outstanding' = Total(queued)
        BY <1>1, <1>2, <2>2 DEF ItemsOK
      <4>2. Total(queued') = 0
        BY <2>2, TotalOfNaturals
      <4> QED
        BY <1>7, <2>1, <2>2, <4>1, <4>2
    <3> QED
      BY <3>2, <3>3, <3>4, <3>5 DEF ItemsOK
  <2>7. WorkerOK'
    BY <2>1 DEF WorkerOK
  <2>8. \A d \in Batches : BatchOK(d)'
    <3> SUFFICES ASSUME NEW d \in Batches PROVE BatchOK(d)'
      OBVIOUS
    <3>1. BatchOK(d) /\ d \in Slots /\ queued[d] \in Nat
      BY <1>1, TypeFacts
    <3>2. taken[d] = 0 /\ queued'[d] = 0 /\ taken'[d] = queued[d]
      BY <1>4, <2>2, <3>1
    <3>3. d \in completed => queued[d] = 0
      <4>1. d \in completed => freed[d] = total[d]
        BY <1>1 DEF CompletedBatchesAreEmpty
      <4>2. total[d] = Held(d) + queued[d] + InHand(d) + freed[d]
        BY <1>1 DEF ItemsOK
      <4>3. Held(d) \in Nat /\ InHand(d) \in Nat /\ freed[d] \in Nat
        BY HeldFacts, TypeFacts
      <4> QED
        BY <3>1, <4>1, <4>2, <4>3
    <3> QED
      BY <1>2, <3>1, <3>2, <3>3 DEF BatchOK
  <2>9. \A d \in Clients : CarrierOK(d)'
    <3> SUFFICES ASSUME NEW d \in Clients PROVE CarrierOK(d)'
      OBVIOUS
    <3>1. CarrierOK(d)
      BY <1>1
    <3>2. pc[d] = "publish" => call[d].batch \in Slots
      BY <3>1, TypeFacts DEF CarrierOK
    <3> QED
      BY <1>2, <2>1, <2>2, <3>1, <3>2 DEF CarrierOK
  <2>10. DestructorOK'
    BY <1>2, <2>1, DestructorStays
  <2> QED
    BY <2>3, <2>4, <2>5, <2>6, <2>7, <2>8, <2>9, <2>10 DEF ReclaimerInv
<1> QED
  BY <1>5, <1>6, <1>7 DEF CheckWork

LEMMA FreeItemsStep ==
  ASSUME ReclaimerInv, FreeItems
  PROVE  ReclaimerInv'
<1> USE DEF batchVars, workVars, counters
<1>1. ReclaimerTypeOK /\ PlacesOK /\ DestructorOK /\ WorkerOK /\ CompletedBatchesAreEmpty /\ ItemsOK
      /\ (\A d \in Batches : BatchOK(d)) /\ \A d \in Clients : CarrierOK(d)
  BY DEF ReclaimerInv
<1>2. /\ pc[Worker] = "free" /\ Move(Worker, "count")
      /\ freed' = [b \in DOMAIN freed |-> freed[b] + taken[b]]
      /\ UNCHANGED <<workLock, batchVars, queued, taken, counters, stopping, call, dtor>>
  BY DEF FreeItems
<1>3. /\ pc'[Worker] = "count" /\ \A c \in Clients : pc'[c] = pc[c]
      /\ \A b \in Batches : Held(b)' = Held(b)
      /\ [b \in Batches |-> Held(b)'] = [b \in Batches |-> Held(b)]
  BY <1>2, WorkerMoves
<1>4. /\ freed' \in [Slots -> Nat] /\ \A b \in Slots : freed'[b] = freed[b] + taken[b]
  BY <1>2, TotalTypes
<1>5. ReclaimerTypeOK'
  <2>1. pc' \in [Threads -> {"loop", "block", "asleep", "free", "count", "complete", "signal",
                             "sweep", "exit", "out", "publish", "find", "await", "idle"}]
    BY <1>1, <1>2 DEF Move, ReclaimerTypeOK
  <2> QED
    BY <1>1, <1>2, <1>4, <2>1 DEF ReclaimerTypeOK, Slots
<1>6. CompletedBatchesAreEmpty'
  <2>1. \A b \in completed : b \in Batches /\ b \in Slots
    BY <1>1, TypeFacts DEF ReclaimerTypeOK
  <2>2. \A b \in completed : freed'[b] = freed[b]
    BY <1>1, <1>4, <2>1, TypeFacts DEF BatchOK
  <2> QED
    BY <1>1, <1>2, <2>2 DEF CompletedBatchesAreEmpty
<1>7. PlacesOK'
  BY <1>1, <1>3 DEF PlacesOK, WorkerPlaces
<1>8. ItemsOK'
  <2>1. \A b \in Slots : InHand(b) = taken[b] /\ InHand(b)' = 0
    BY <1>2, <1>3 DEF InHand
  <2>2. \A b \in Batches : total'[b] = Held(b)' + queued'[b] + InHand(b)' + freed'[b]
    <3> SUFFICES ASSUME NEW b \in Batches
                 PROVE  total'[b] = Held(b)' + queued'[b] + InHand(b)' + freed'[b]
      OBVIOUS
    <3>1. total[b] = Held(b) + queued[b] + InHand(b) + freed[b]
      BY <1>1 DEF ItemsOK
    <3>2. b \in Slots /\ Held(b) \in Nat /\ queued[b] \in Nat /\ freed[b] \in Nat /\ taken[b] \in Nat
      BY TypeFacts, HeldFacts
    <3> QED
      BY <1>2, <1>3, <1>4, <2>1, <3>1, <3>2
  <2>3. total'[ReclaimAuto] = queued'[ReclaimAuto] + InHand(ReclaimAuto)' + freed'[ReclaimAuto]
    <3>1. total[ReclaimAuto] = queued[ReclaimAuto] + InHand(ReclaimAuto) + freed[ReclaimAuto]
      BY <1>1 DEF ItemsOK
    <3>2. ReclaimAuto \in Slots /\ queued[ReclaimAuto] \in Nat /\ freed[ReclaimAuto] \in Nat
          /\ taken[ReclaimAuto] \in Nat
      BY TypeFacts
    <3> QED
      BY <1>2, <1>4, <2>1, <3>1, <3>2
  <2>4. deferred' = Total([b \in Batches |-> Held(b)'])
    BY <1>1, <1>2, <1>3 DEF ItemsOK
  <2>5. outstanding' = Total(queued') + IF pc'[Worker] \in {"free", "count"} THEN Total(taken') ELSE 0
    BY <1>1, <1>2, <1>3 DEF ItemsOK
  <2> QED
    BY <2>2, <2>3, <2>4, <2>5 DEF ItemsOK
<1>9. WorkerOK'
  BY <1>3 DEF WorkerOK
<1>10. \A d \in Batches : BatchOK(d)'
  BY <1>1, <1>2 DEF BatchOK
<1>11. \A d \in Clients : CarrierOK(d)'
  BY <1>1, <1>2, <1>3 DEF CarrierOK
<1>12. DestructorOK'
  BY <1>2, <1>3, DestructorStays
<1> QED
  BY <1>5, <1>6, <1>7, <1>8, <1>9, <1>10, <1>11, <1>12 DEF ReclaimerInv

LEMMA CountDownStep ==
  ASSUME ReclaimerInv, CountDown
  PROVE  ReclaimerInv'
<1> USE DEF batchVars, workVars, counters
<1>1. ReclaimerTypeOK /\ PlacesOK /\ DestructorOK /\ WorkerOK /\ CompletedBatchesAreEmpty /\ ItemsOK
      /\ (\A d \in Batches : BatchOK(d)) /\ \A d \in Clients : CarrierOK(d)
  BY DEF ReclaimerInv
<1>2. /\ pc[Worker] = "count" /\ Move(Worker, "complete") /\ outstanding' = outstanding - Total(taken)
      /\ UNCHANGED <<workLock, batchVars, workVars, deferred, stopping, call, dtor>>
  BY DEF CountDown, RoundCount
<1>3. /\ pc'[Worker] = "complete" /\ \A c \in Clients : pc'[c] = pc[c]
      /\ \A b \in Batches : Held(b)' = Held(b)
      /\ [b \in Batches |-> Held(b)'] = [b \in Batches |-> Held(b)]
  BY <1>2, WorkerMoves
<1>4. outstanding' = Total(queued) /\ Total(queued) \in Nat
  <2>1. outstanding = Total(queued) + Total(taken)
    BY <1>1, <1>2 DEF ItemsOK
  <2> DEFINE q == Total(queued)
             t == Total(taken)
  <2>2. q \in Nat /\ t \in Nat /\ outstanding = q + t /\ outstanding' = outstanding - t
    BY <1>2, <2>1, TotalTypes
  <2> HIDE DEF q, t
  <2>3. outstanding' = q
    BY <2>2
  <2> QED
    BY <2>2, <2>3 DEF q
<1>5. ReclaimerTypeOK'
  <2>1. pc' \in [Threads -> {"loop", "block", "asleep", "free", "count", "complete", "signal",
                             "sweep", "exit", "out", "publish", "find", "await", "idle"}]
    BY <1>1, <1>2 DEF Move, ReclaimerTypeOK
  <2> QED
    BY <1>1, <1>2, <1>4, <2>1 DEF ReclaimerTypeOK
<1>6. CompletedBatchesAreEmpty'
  BY <1>1, <1>2 DEF CompletedBatchesAreEmpty
<1>7. PlacesOK'
  BY <1>1, <1>3 DEF PlacesOK, WorkerPlaces
<1>8. ItemsOK'
  <2>1. \A b \in Slots : InHand(b)' = InHand(b)
    BY <1>2, <1>3 DEF InHand
  <2>2. \A b \in Batches : total'[b] = Held(b)' + queued'[b] + InHand(b)' + freed'[b]
    BY <1>1, <1>2, <1>3, <2>1, TypeFacts DEF ItemsOK
  <2>3. total'[ReclaimAuto] = queued'[ReclaimAuto] + InHand(ReclaimAuto)' + freed'[ReclaimAuto]
    BY <1>1, <1>2, <2>1, TypeFacts DEF ItemsOK
  <2>4. deferred' = Total([b \in Batches |-> Held(b)'])
    BY <1>1, <1>2, <1>3 DEF ItemsOK
  <2>5. outstanding' = Total(queued') + IF pc'[Worker] \in {"free", "count"} THEN Total(taken') ELSE 0
    BY <1>2, <1>3, <1>4
  <2> QED
    BY <2>2, <2>3, <2>4, <2>5 DEF ItemsOK
<1>9. WorkerOK'
  BY <1>3 DEF WorkerOK
<1>10. \A d \in Batches : BatchOK(d)'
  BY <1>1, <1>2 DEF BatchOK
<1>11. \A d \in Clients : CarrierOK(d)'
  BY <1>1, <1>2, <1>3 DEF CarrierOK
<1>12. DestructorOK'
  BY <1>2, <1>3, DestructorStays
<1> QED
  BY <1>5, <1>6, <1>7, <1>8, <1>9, <1>10, <1>11, <1>12 DEF ReclaimerInv
(* A batch is completed when nobody holds items of it any more: then all   *)
(* that it ever took are destroyed.                                        *)
LEMMA NothingLeft ==
  ASSUME ReclaimerInv, NEW b \in Batches, pending[b] = 0, OnTheWay(b) = {}, queued[b] = 0,
         pc[Worker] # "free"
  PROVE  freed[b] = total[b]
<1>1. total[b] = Held(b) + queued[b] + InHand(b) + freed[b]
  BY DEF ReclaimerInv, ItemsOK
<1>2. Held(b) = 0 /\ InHand(b) = 0
  BY HeldFacts DEF InHand
<1>3. freed[b] \in Nat
  BY TypeFacts
<1> QED
  BY <1>1, <1>2, <1>3

LEMMA CompleteBatchesStep ==
  ASSUME ReclaimerInv, CompleteBatches
  PROVE  ReclaimerInv'
<1> USE DEF batchVars, workVars, counters
<1>1. ReclaimerTypeOK /\ PlacesOK /\ DestructorOK /\ WorkerOK /\ CompletedBatchesAreEmpty /\ ItemsOK
      /\ (\A d \in Batches : BatchOK(d)) /\ \A d \in Clients : CarrierOK(d)
  BY DEF ReclaimerInv
<1>2. PICK done : /\ done = {b \in Done(active') : taken[b] > 0}
                  /\ completed' = completed \cup done /\ live' = live \ done
  BY DEF CompleteBatches
<1>3. /\ pc[Worker] = "complete" /\ dtor.at # "scan" /\ Move(Worker, "signal")
      /\ active' = [b \in Batches |-> IF b \in live THEN active[b] - taken[b] ELSE active[b]]
      /\ taken' = [b \in DOMAIN taken |-> 0]
      /\ UNCHANGED <<workLock, created, sealed, activated, pending, total, queued, freed,
                     counters, stopping, call, dtor>>
  BY DEF CompleteBatches, BatchesFree
<1>4. /\ pc'[Worker] = "signal" /\ \A c \in Clients : pc'[c] = pc[c]
      /\ \A b \in Batches : Held(b)' = Held(b)
  BY <1>3, WorkerMoves
<1>5. /\ taken' \in [Slots -> Nat] /\ \A b \in Slots : taken'[b] = 0
  BY <1>3, TotalTypes
<1>6. \A b \in Batches : active'[b] = IF b \in live THEN active[b] - taken[b] ELSE active[b]
  BY <1>3
<1>7. \A b \in live : active'[b] = queued[b] /\ b \in Batches
  <2> SUFFICES ASSUME NEW b \in live PROVE active'[b] = queued[b] /\ b \in Batches
    OBVIOUS
  <2>1. b \in Batches /\ queued[b] \in Nat /\ taken[b] \in Nat
    BY TypeFacts
  <2>2. active[b] = queued[b] + taken[b]
    BY <1>1, <2>1 DEF BatchOK
  <2> QED
    BY <1>6, <2>1, <2>2
<1>8. \A b \in done : /\ b \in live /\ b \in Batches /\ queued[b] = 0 /\ taken[b] > 0 /\ pending[b] = 0
                      /\ OnTheWay(b) = {}
  <2> SUFFICES ASSUME NEW b \in done
               PROVE  /\ b \in live /\ b \in Batches /\ queued[b] = 0 /\ taken[b] > 0 /\ pending[b] = 0
                      /\ OnTheWay(b) = {}
    OBVIOUS
  <2>1. b \in live /\ b \in Batches /\ queued[b] = 0 /\ taken[b] > 0
    BY <1>2, <1>7 DEF Done
  <2>2. pending[b] \in Nat /\ BatchOK(b)
    BY <1>1, <2>1, TypeFacts
  <2>3. pending[b] = 0
    BY <2>1, <2>2 DEF BatchOK
  <2>4. OnTheWay(b) = {}
    BY <1>1, <2>1 DEF CarrierOK, OnTheWay
  <2> QED
    BY <2>1, <2>3, <2>4
<1>9. ReclaimerTypeOK'
  <2>1. pc' \in [Threads -> {"loop", "block", "asleep", "free", "count", "complete", "signal",
                             "sweep", "exit", "out", "publish", "find", "await", "idle"}]
    BY <1>1, <1>3 DEF Move, ReclaimerTypeOK
  <2>2. active' \in [Batches -> Nat]
    <3>1. \A b \in Batches : active'[b] \in Nat
      BY <1>6, <1>7, TypeFacts
    <3> QED
      BY <1>3, <3>1
  <2>3. live' \subseteq 1..created /\ completed' \subseteq 1..created
    BY <1>1, <1>2, <1>8 DEF ReclaimerTypeOK
  <2> QED
    BY <1>1, <1>3, <1>5, <2>1, <2>2, <2>3 DEF ReclaimerTypeOK, Slots
<1>10. CompletedBatchesAreEmpty'
  <2>1. \A b \in done : freed[b] = total[b]
    BY <1>3, <1>8, NothingLeft
  <2> QED
    BY <1>1, <1>2, <1>3, <2>1 DEF CompletedBatchesAreEmpty
<1>11. PlacesOK'
  BY <1>1, <1>4 DEF PlacesOK, WorkerPlaces
<1>12. ItemsOK'
  BY <1>3, <1>4, <1>5, TypeFacts
     DEF ItemsOK, InHand, ReclaimerInv
<1>13. WorkerOK'
  BY <1>4, <1>5 DEF WorkerOK
<1>14. \A d \in Batches : BatchOK(d)'
  <2> SUFFICES ASSUME NEW d \in Batches PROVE BatchOK(d)'
    OBVIOUS
  <2>1. BatchOK(d) /\ d \in Slots /\ queued[d] \in Nat /\ taken'[d] = 0
    BY <1>1, <1>5, TypeFacts
  <2>2. d \in live' => active'[d] = queued'[d] + taken'[d]
    BY <1>2, <1>3, <1>7, <2>1
  <2>3. d \notin 1..created' => total'[d] = 0 /\ active'[d] = 0
    <3>1. d \notin 1..created => d \notin live
      BY TypeFacts
    <3> QED
      BY <1>3, <1>6, <2>1, <3>1 DEF BatchOK
  <2> QED
    BY <1>3, <2>1, <2>2, <2>3 DEF BatchOK
<1>15. \A d \in Clients : CarrierOK(d)'
  <2> SUFFICES ASSUME NEW d \in Clients PROVE CarrierOK(d)'
    OBVIOUS
  <2>1. CarrierOK(d)
    BY <1>1
  <2>2. pc[d] = "publish" => call[d].batch \in live' /\ call[d].batch \in Slots
    BY <1>2, <1>8, <2>1, TypeFacts DEF CarrierOK
  <2> QED
    BY <1>3, <1>4, <1>5, <2>1, <2>2 DEF CarrierOK
<1>16. DestructorOK'
  <2>1. dtor.at = "publish" => dtor.batch \in live'
    BY <1>1, <1>2, <1>8 DEF DestructorOK
  <2>2. live' \subseteq live
    BY <1>2
  <2> QED
    BY <1>1, <1>3, <1>4, <2>1, <2>2 DEF DestructorOK
<1> QED
  BY <1>9, <1>10, <1>11, <1>12, <1>13, <1>14, <1>15, <1>16 DEF ReclaimerInv

LEMMA FinalSweepStep ==
  ASSUME ReclaimerInv, FinalSweep
  PROVE  ReclaimerInv'
<1> USE DEF batchVars, workVars, counters
<1>1. ReclaimerTypeOK /\ PlacesOK /\ DestructorOK /\ WorkerOK /\ CompletedBatchesAreEmpty /\ ItemsOK
      /\ (\A d \in Batches : BatchOK(d)) /\ \A d \in Clients : CarrierOK(d)
  BY DEF ReclaimerInv
<1>2. PICK done : /\ done = Done(active) /\ completed' = completed \cup done /\ live' = live \ done
  BY DEF FinalSweep
<1>3. /\ pc[Worker] = "sweep" /\ dtor.at # "scan" /\ Move(Worker, "exit")
      /\ UNCHANGED <<workLock, created, sealed, activated, pending, active, total, workVars,
                     counters, stopping, call, dtor>>
  BY DEF FinalSweep, BatchesFree
<1>4. /\ pc'[Worker] = "exit" /\ \A c \in Clients : pc'[c] = pc[c]
      /\ \A b \in Batches : Held(b)' = Held(b)
  BY <1>3, WorkerMoves
<1>5. stopping /\ \A b \in Slots : queued[b] = 0 /\ taken[b] = 0
  BY <1>1, <1>3 DEF WorkerOK
<1>6. dtor.at \in {"notify", "join"}
  BY <1>1, <1>3, <1>5 DEF DestructorOK, ReclaimerTypeOK
<1>7. \A b \in done : b \in live /\ b \in Batches /\ freed[b] = total[b]
  <2> SUFFICES ASSUME NEW b \in done PROVE b \in live /\ b \in Batches /\ freed[b] = total[b]
    OBVIOUS
  <2>1. b \in live /\ b \in Batches /\ b \in Slots
    BY <1>2, TypeFacts DEF Done
  <2>2. pending[b] = 0 /\ OnTheWay(b) = {} /\ queued[b] = 0
    BY <1>1, <1>5, <1>6, <2>1, NobodyCarries DEF DestructorOK
  <2> QED
    BY <1>3, <2>1, <2>2, NothingLeft
<1>8. ReclaimerTypeOK'
  <2>1. pc' \in [Threads -> {"loop", "block", "asleep", "free", "count", "complete", "signal",
                             "sweep", "exit", "out", "publish", "find", "await", "idle"}]
    BY <1>1, <1>3 DEF Move, ReclaimerTypeOK
  <2>2. live' \subseteq 1..created /\ completed' \subseteq 1..created
    BY <1>1, <1>2, <1>7 DEF ReclaimerTypeOK
  <2> QED
    BY <1>1, <1>3, <2>1, <2>2 DEF ReclaimerTypeOK
<1>9. CompletedBatchesAreEmpty'
  BY <1>1, <1>2, <1>3, <1>7 DEF CompletedBatchesAreEmpty
<1>10. PlacesOK'
  BY <1>1, <1>4 DEF PlacesOK, WorkerPlaces
<1>11. ItemsOK'
  BY <1>3, <1>4, ItemsStay
<1>12. WorkerOK'
  BY <1>3, <1>4, <1>5 DEF WorkerOK
<1>13. \A d \in Batches : BatchOK(d)'
  <2> SUFFICES ASSUME NEW d \in Batches PROVE BatchOK(d)'
    OBVIOUS
  <2>1. BatchOK(d) /\ taken[d] = 0
    BY <1>1, <1>5, TypeFacts
  <2> QED
    BY <1>2, <1>3, <2>1 DEF BatchOK
<1>14. \A d \in Clients : CarrierOK(d)'
  BY <1>3, <1>4, <1>6, NobodyCarries DEF CarrierOK
<1>15. DestructorOK'
  <2>1. live' \subseteq live
    BY <1>2
  <2> QED
    BY <1>1, <1>3, <1>4, <1>6, <2>1 DEF DestructorOK
<1> QED
  BY <1>8, <1>9, <1>10, <1>11, <1>12, <1>13, <1>14, <1>15 DEF ReclaimerInv
-----------------------------------------------------------------------------
LEMMA InitiallyEmpty == Init => ReclaimerInv
<1> SUFFICES ASSUME Init PROVE ReclaimerInv
  OBVIOUS
<1>1. Worker \notin Clients /\ Worker \in Threads /\ Clients \subseteq Threads /\ Threads = Clients \cup {Worker}
  BY ThreadsAssumption DEF Threads
<1>2. /\ pc = [t \in Threads |-> IF t = Worker THEN "loop" ELSE "out"]
      /\ workLock = Free /\ created = 0
      /\ live = {} /\ sealed = {} /\ activated = {} /\ completed = {}
      /\ pending = [b \in Batches |-> 0] /\ active = [b \in Batches |-> 0]
      /\ total = [b \in Slots |-> 0] /\ queued = total /\ taken = total /\ freed = total
      /\ deferred = 0 /\ outstanding = 0 /\ stopping = FALSE
      /\ call = [c \in Clients |-> NoCall]
      /\ dtor = [at |-> "alive", batch |-> ReclaimAuto, visited |-> {}]
  BY DEF Init, Slots
<1>3. pc[Worker] = "loop" /\ \A c \in Clients : pc[c] = "out"
  BY <1>1, <1>2
<1>4. ReclaimerTypeOK
  <2>1. pc \in [Threads -> {"loop", "block", "asleep", "free", "count", "complete", "signal",
                            "sweep", "exit", "out", "publish", "find", "await", "idle"}]
    BY <1>2
  <2>2. {pending, active} \subseteq [Batches -> Nat] /\ {total, queued, taken, freed} \subseteq [Slots -> Nat]
    BY <1>2
  <2>3. call \in [Clients -> [batch : Batches \cup {ReclaimAuto}, items : Nat, drain : BOOLEAN]]
    BY <1>2 DEF NoCall
  <2>4. created \in 0..MaxBatches
    BY <1>2, BoundsAssumption
  <2> QED
    BY <1>2, <2>1, <2>2, <2>3, <2>4 DEF ReclaimerTypeOK, Slots
<1>5. CompletedBatchesAreEmpty
  <2>1. 1..0 = {}
    OBVIOUS
  <2> QED
    BY <1>2, <2>1 DEF CompletedBatchesAreEmpty
<1>6. PlacesOK
  BY <1>3 DEF PlacesOK, WorkerPlaces, ClientPlaces
<1>7. \A b \in Batches : Held(b) = 0
  <2> SUFFICES ASSUME NEW b \in Batches PROVE Held(b) = 0
    OBVIOUS
  <2>1. OnTheWay(b) = {}
    BY <1>3 DEF OnTheWay
  <2>2. Total([c \in OnTheWay(b) |-> call[c].items]) = 0
    BY <2>1, CarriedItems
  <2> QED
    BY <1>2, <2>2 DEF Held
<1>8. \A b \in Slots : total[b] = 0 /\ queued[b] = 0 /\ taken[b] = 0 /\ freed[b] = 0 /\ InHand(b) = 0
  BY <1>2, <1>3 DEF InHand
<1>9. ItemsOK
  <2>1. Total([b \in Batches |-> Held(b)]) = 0
    <3>1. [b \in Batches |-> Held(b)] = [b \in Batches |-> 0]
      BY <1>7
    <3> DEFINE f == [b \in Batches |-> 0]
    <3>2. f \in [Batches -> Nat] /\ \A b \in Batches : f[b] = 0
      OBVIOUS
    <3> HIDE DEF f
    <3>3. Total(f) = 0
      BY <3>2, SlotsAreFinite, TotalOfNaturals
    <3> QED
      BY <3>1, <3>3 DEF f
  <2>2. Total(queued) = 0
    BY <1>2, <1>8, SlotsAreFinite, TotalOfNaturals
  <2>3. Batches \subseteq Slots /\ ReclaimAuto \in Slots
    BY SlotsAreFinite DEF Slots
  <2> QED
    BY <1>2, <1>3, <1>7, <1>8, <2>1, <2>2, <2>3 DEF ItemsOK
<1>10. WorkerOK
  BY <1>3, <1>8 DEF WorkerOK
<1>11. \A b \in Batches : BatchOK(b)
  <2>1. Batches \subseteq Slots
    BY SlotsAreFinite
  <2> QED
    BY <1>2, <1>8, <2>1 DEF BatchOK
<1>12. \A c \in Clients : CarrierOK(c)
  BY <1>3 DEF CarrierOK
<1>13. DestructorOK
  BY <1>2 DEF DestructorOK
<1> QED
  BY <1>4, <1>5, <1>6, <1>9, <1>10, <1>11, <1>12, <1>13 DEF ReclaimerInv

LEMMA EveryStepKeepsIt == ReclaimerInv /\ [Next]_vars => ReclaimerInv'
<1> SUFFICES ASSUME ReclaimerInv, [Next]_vars PROVE ReclaimerInv'
  OBVIOUS
<1>1. ASSUME NEW c \in Clients, Call(c) PROVE ReclaimerInv'
  BY <1>1, CreateBatchStep, EnqueueAutoStep, OneThreadMoves, EnqueueStep, SealBatchStep, ActivateStep DEF Call
<1>2. ASSUME NEW c \in Clients, ClientStep(c) PROVE ReclaimerInv'
  BY <1>2, ActivatePublishStep, OneThreadMoves DEF ClientStep
<1>3. ASSUME NEW t \in Threads, Block(t) \/ SpuriousWakeup(t) PROVE ReclaimerInv'
  BY <1>3, OneThreadMoves
<1>4. CASE WorkerStep
  BY <1>4, CheckWorkStep, FreeItemsStep, CountDownStep, CompleteBatchesStep, NotifiedSteps, FinalSweepStep
     DEF WorkerStep
<1>5. CASE DestructorStep \/ BeginDestruction
  BY <1>5, VisitStep, DestructorPublishStep, DestructorMoves, SetStoppingStep, NotifiedSteps
     DEF DestructorStep
<1>6. CASE UNCHANGED vars
  <2>1. UNCHANGED <<batchVars, workVars, counters, stopping, call>> /\ UNCHANGED <<pc, workLock, dtor>>
    BY <1>6 DEF vars
  <2>2. ReclaimerTypeOK' /\ PlacesOK' /\ DestructorOK'
    BY <2>1 DEF ReclaimerInv, ReclaimerTypeOK, PlacesOK, DestructorOK, batchVars, workVars, counters
  <2> QED
    BY <2>1, <2>2, QuietStep
<1> QED
  BY <1>1, <1>2, <1>3, <1>4, <1>5, <1>6 DEF Next

LEMMA InvariantHolds == Spec => []ReclaimerInv
<1>1. Init => ReclaimerInv
  BY InitiallyEmpty
<1>2. ReclaimerInv /\ [Next]_vars => ReclaimerInv'
  BY EveryStepKeepsIt
<1> QED
  BY <1>1, <1>2, PTL DEF Spec

(* Every image handed over is in exactly one place, the counters agree     *)
(* with where they are, a completed batch is empty, and when the           *)
(* destructor is through all images are destroyed - for every number of    *)
(* threads, batches and images (cpu_staging_reclaimer.cpp).                *)
THEOREM EveryItemIsAccountedFor == Spec => []ItemsAreAccountedFor
<1>1. ReclaimerInv => ItemsAreAccountedFor
  <2> SUFFICES ASSUME ReclaimerInv PROVE ItemsAreAccountedFor
    OBVIOUS
  <2>1. ReclaimerTypeOK /\ DestructorOK /\ WorkerOK /\ CompletedBatchesAreEmpty /\ ItemsOK
        /\ \A d \in Batches : BatchOK(d)
    BY DEF ReclaimerInv
  <2>2. ASSUME dtor.at = "gone" PROVE freed = total
    <3>1. pc[Worker] = "exit" /\ (\A b \in Slots : queued[b] = 0 /\ taken[b] = 0)
          /\ \A b : OnTheWay(b) = {}
      BY <2>1, <2>2, NobodyCarries DEF DestructorOK, WorkerOK
    <3>2. ASSUME NEW b \in Batches PROVE freed[b] = total[b]
      <4>1. CASE b \in live
        <5>1. pending[b] = 0 /\ queued[b] = 0
          BY <2>1, <2>2, <3>1, <4>1, TypeFacts DEF DestructorOK
        <5> QED
          BY <3>1, <5>1, NothingLeft
      <4>2. CASE b \in completed
        BY <2>1, <4>2 DEF CompletedBatchesAreEmpty
      <4>3. CASE b \notin 1..created
        <5>1. total[b] = 0 /\ total[b] = Held(b) + queued[b] + InHand(b) + freed[b]
          BY <2>1, <4>3 DEF BatchOK, ItemsOK
        <5>2. Held(b) \in Nat /\ queued[b] \in Nat /\ InHand(b) \in Nat /\ freed[b] \in Nat
          BY HeldFacts, TypeFacts
        <5> QED
          BY <5>1, <5>2
      <4> QED
        BY <2>1, <4>1, <4>2, <4>3 DEF CompletedBatchesAreEmpty
    <3>3. freed[ReclaimAuto] = total[ReclaimAuto]
      <4>1. InHand(ReclaimAuto) = 0 /\ queued[ReclaimAuto] = 0 /\ freed[ReclaimAuto] \in Nat
        BY <3>1, TypeFacts DEF InHand
      <4> QED
        BY <2>1, <4>1 DEF ItemsOK
    <3>4. \A b \in Slots : freed[b] = total[b]
      BY <3>2, <3>3 DEF Slots
    <3>5. freed \in [Slots -> Nat] /\ total \in [Slots -> Nat]
      BY TotalTypes
    <3> QED
      BY <3>4, <3>5
  <2> QED
    BY <2>1, <2>2 DEF ItemsAreAccountedFor, ItemsOK
<1> QED
  BY <1>1, InvariantHolds, PTL

-----------------------------------------------------------------------------
(* A waiting client comes out by its own step only.                        *)
LEMMA WhoReturns ==
  ASSUME ReclaimerInv, Next, NEW c \in Clients, pc[c] \in {"find", "await", "idle"}, pc'[c] = "out"
  PROVE  FindBatch(c) \/ AwaitCompletion(c) \/ CheckIdle(c)
<1>1. Worker \notin Clients /\ c # Worker /\ c \in Threads /\ Clients \subseteq Threads
      /\ pc \in [Threads -> {"loop", "block", "asleep", "free", "count", "complete", "signal",
                             "sweep", "exit", "out", "publish", "find", "await", "idle"}]
  BY TypeFacts DEF ReclaimerInv, ReclaimerTypeOK
<1>2. \A t, place : Move(t, place) /\ t # c => pc'[c] = pc[c]
  BY <1>1 DEF Move
<1>3. \A t, place : WakeAllAnd(t, place) /\ t # c => pc'[c] = pc[c]
  BY <1>1 DEF WakeAllAnd, Asleep
<1>4. pc'[c] # pc[c]
  OBVIOUS
<1>5. ASSUME NEW d \in Clients, Call(d) PROVE FALSE
  <2>1. pc[d] = "out"
    BY <1>5 DEF Call, CreateBatch, EnqueueAuto, CallWaitIdle, Enqueue, SealBatch, Activate, Idle
  <2>2. d # c
    BY <2>1
  <2>3. pc' = pc \/ (\E place : Move(d, place)) \/ \E u \in Asleep : pc' = [pc EXCEPT ![u] = Retry(u)]
    BY <1>5 DEF Call, CreateBatch, EnqueueAuto, CallWaitIdle, Enqueue, SealBatch, Activate
  <2> QED
    BY <1>1, <1>2, <1>4, <2>2, <2>3 DEF Asleep
<1>6. ASSUME NEW d \in Clients, ClientStep(d) PROVE FindBatch(c) \/ AwaitCompletion(c) \/ CheckIdle(c)
  <2>1. CASE d = c
    BY <1>6, <2>1 DEF ClientStep, ActivatePublish
  <2>2. CASE d # c
    BY <1>2, <1>3, <1>4, <1>6, <2>2
       DEF ClientStep, ActivatePublish, FindBatch, AwaitCompletion, CheckIdle
  <2> QED
    BY <2>1, <2>2
<1>7. ASSUME NEW t \in Threads, Block(t) \/ SpuriousWakeup(t) PROVE FALSE
  <2>1. t # c
    BY <1>7 DEF Block, SpuriousWakeup, Asleep
  <2> QED
    BY <1>2, <1>4, <1>7, <2>1 DEF Block, SpuriousWakeup
<1>8. ASSUME WorkerStep PROVE FALSE
  <2>1. pc' = pc \/ (\E place : Move(Worker, place)) \/ WakeAllAnd(Worker, "loop")
    BY <1>8 DEF WorkerStep, CheckWork, FreeItems, CountDown, CompleteBatches, Signal, FinalSweep
  <2> QED
    BY <1>1, <1>2, <1>3, <1>4, <2>1
<1>9. ASSUME DestructorStep \/ BeginDestruction PROVE FALSE
  <2>1. pc' = pc \/ WakeAll
    BY <1>9 DEF DestructorStep, BeginDestruction, Visit, DestructorPublish, Relock, SetStopping,
                NotifyStopping, Join
  <2>2. WakeAll => pc'[c] = pc[c]
    BY <1>1 DEF WakeAll, Asleep
  <2> QED
    BY <1>4, <2>1, <2>2
<1> QED
  BY <1>5, <1>6, <1>7, <1>8, <1>9 DEF Next

(* drain_and_wait returns only when every image its batch ever took is     *)
(* destroyed, and wait_idle only when nothing activated is left, whatever  *)
(* the other threads do meanwhile.                                         *)
THEOREM WaitingMeansFreed == Spec => ReturnsMeanFreed
<1>1. ReclaimerInv /\ [Next]_vars =>
        [\A c \in Clients : pc[c] \in {"find", "await"} /\ pc'[c] = "out" =>
           freed[call[c].batch] = total[call[c].batch]]_vars
  <2> SUFFICES ASSUME ReclaimerInv, [Next]_vars, vars' # vars,
                      NEW c \in Clients, pc[c] \in {"find", "await"}, pc'[c] = "out"
               PROVE  freed[call[c].batch] = total[call[c].batch]
    BY DEF vars
  <2>1. FindBatch(c) \/ AwaitCompletion(c)
    BY WhoReturns DEF CheckIdle
  <2>2. call[c].batch \in 1..created /\ CompletedBatchesAreEmpty
    BY DEF ReclaimerInv, CarrierOK
  <2>3. call[c].batch \in completed
    <3>1. ASSUME FindBatch(c) PROVE call[c].batch \notin live
      <4>1. pc'[c] = IF call[c].batch \in live THEN "await" ELSE "out"
        BY <3>1, TypeFacts DEF FindBatch, Move, ReclaimerInv, ReclaimerTypeOK
      <4> QED
        BY <4>1
    <3> QED
      BY <2>1, <2>2, <3>1 DEF AwaitCompletion, CompletedBatchesAreEmpty
  <2> QED
    BY <2>2, <2>3 DEF CompletedBatchesAreEmpty
<1>2. ReclaimerInv /\ [Next]_vars =>
        [\A c \in Clients : pc[c] = "idle" /\ pc'[c] = "out" =>
           Total(queued) = 0 /\ \A b \in Batches \cup {ReclaimAuto} : InHand(b) = 0]_vars
  <2> SUFFICES ASSUME ReclaimerInv, [Next]_vars, vars' # vars,
                      NEW c \in Clients, pc[c] = "idle", pc'[c] = "out"
               PROVE  Total(queued) = 0 /\ \A b \in Batches \cup {ReclaimAuto} : InHand(b) = 0
    BY DEF vars
  <2>1. CheckIdle(c)
    BY WhoReturns DEF FindBatch, AwaitCompletion
  <2>2. outstanding = 0
    <3>1. ASSUME outstanding # 0 PROVE pc'[c] = "block"
      BY <2>1, <3>1, TypeFacts DEF CheckIdle, IdleReached, Move, ReclaimerInv, ReclaimerTypeOK
    <3> QED
      BY <3>1
  <2>3. Total(queued) \in Nat /\ Total(taken) \in Nat
    BY TotalTypes
  <2>4. outstanding = Total(queued) + IF pc[Worker] \in {"free", "count"} THEN Total(taken) ELSE 0
    BY DEF ReclaimerInv, ItemsOK
  <2>5. pc[Worker] \in {"free", "count"} => outstanding = Total(queued) + Total(taken)
    BY <2>4
  <2>6. pc[Worker] \notin {"free", "count"} => outstanding = Total(queued) + 0
    BY <2>4
  <2> DEFINE q == Total(queued)
             t == Total(taken)
  <2>7. q \in Nat /\ t \in Nat /\ (pc[Worker] \in {"free", "count"} => 0 = q + t)
        /\ (pc[Worker] \notin {"free", "count"} => 0 = q + 0)
    BY <2>2, <2>3, <2>5, <2>6
  <2> HIDE DEF q, t
  <2>8. q = 0 /\ (pc[Worker] = "free" => t = 0)
    BY <2>7
  <2>9. pc[Worker] = "free" => \A b \in Slots : taken[b] = 0
    BY <2>8, TotalTypes, TotalZero DEF t
  <2> QED
    BY <2>8, <2>9 DEF q, InHand, Slots
<1> QED
  BY <1>1, <1>2, InvariantHolds, PTL DEF Spec, ReturnsMeanFreed, DrainMeansFreed, IdleMeansFreed
=============================================================================
