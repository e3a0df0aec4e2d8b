----------------------------- MODULE RouteProofs -----------------------------
(***************************************************************************)
(* Proofs about AdventureRules for every size of the map: the estimate of  *)
(* the search for a route is consistent, so a closed cell keeps its cost   *)
(* and its predecessor, and a route that find_path answers with starts and *)
(* ends where it was asked to, over cells the stack may enter at the price *)
(* it names.                                                               *)
(***************************************************************************)
EXTENDS AdventureRules, NaturalFacts

(* A cell and its coordinates.                                             *)
LEMMA CellFacts ==
  ASSUME NEW c \in Cells
  PROVE  /\ c[1] \in 0 .. Width - 1 /\ c[2] \in 0 .. Height - 1 /\ c = <<c[1], c[2]>>
         /\ c[1] \in Int /\ c[2] \in Int
BY MapAssumption DEF Cells

(* The price of a cell, one profile after the other.                       *)
LEMMA GroundCosts ==
  ASSUME NEW profile \in Profile, NEW g, NEW r \in BOOLEAN
  PROVE  /\ g = "Unknown" => GroundCost(profile, g, r) = 0
         /\ g # "Unknown" /\ profile = "Flying" => GroundCost(profile, g, r) = 2
         /\ g # "Unknown" /\ profile = "Swimming" =>
              GroundCost(profile, g, r) = IF g = "Water" THEN 2 ELSE 0
         /\ g # "Unknown" /\ profile = "Walking" =>
              GroundCost(profile, g, r) = IF r THEN 1 ELSE IF g = "Plain" THEN 3
                                          ELSE IF g = "Forest" THEN 4 ELSE 6
<1>1. "Flying" # "Swimming" /\ "Flying" # "Walking" /\ "Swimming" # "Walking"
  OBVIOUS
<1>2. CASE g = "Unknown"
  BY <1>2, Zenon DEF GroundCost, Impassable
<1>3. CASE g # "Unknown" /\ profile = "Flying"
  BY <1>1, <1>3, Zenon DEF GroundCost
<1>4. CASE g # "Unknown" /\ profile = "Swimming"
  BY <1>1, <1>4, Zenon DEF GroundCost, Impassable
<1>5. CASE g # "Unknown" /\ profile = "Walking"
  BY <1>1, <1>5, Zenon DEF GroundCost
<1> QED
  BY <1>1, <1>2, <1>3, <1>4, <1>5

(* The cheapest step of each profile, and that nothing is cheaper.         *)
LEMMA CheapestStep ==
  ASSUME NEW profile \in Profile
  PROVE  /\ MinimumStepCost(profile) = IF profile = "Walking" THEN 1 ELSE 2
         /\ \A g \in Ground, r \in BOOLEAN :
              GroundCost(profile, g, r) # Impassable =>
                GroundCost(profile, g, r) \in Nat /\ GroundCost(profile, g, r) >= MinimumStepCost(profile)
<1> DEFINE costs == {GroundCost(profile, g, r) : g \in {"Plain", "Forest", "Water"}, r \in BOOLEAN} \ {Impassable}
<1>1. costs = IF profile = "Walking" THEN {1, 3, 4, 6} ELSE {2}
  <2> DEFINE Cost(g, r) == GroundCost(profile, g, r)
  <2>1. \A g \in {"Plain", "Forest", "Water"}, r \in BOOLEAN :
          Cost(g, r) = 0 \/ Cost(g, r) \in (IF profile = "Walking" THEN {1, 3, 4, 6} ELSE {2})
    BY GroundCosts DEF Profile
  <2>2. /\ profile = "Walking" => /\ Cost("Plain", TRUE) = 1 /\ Cost("Plain", FALSE) = 3
                                  /\ Cost("Forest", FALSE) = 4 /\ Cost("Water", FALSE) = 6
        /\ profile # "Walking" => Cost("Water", FALSE) = 2
    BY GroundCosts DEF Profile
  <2>3. ASSUME NEW n, n \in (IF profile = "Walking" THEN {1, 3, 4, 6} ELSE {2})
        PROVE  n \in costs
    <3>1. \E g \in {"Plain", "Forest", "Water"}, r \in BOOLEAN : n = Cost(g, r)
      <4> HIDE DEF Cost
      <4> QED
        BY <2>2, <2>3
    <3>2. n # Impassable
      BY <2>3 DEF Impassable
    <3> QED
      BY <3>1, <3>2
  <2>4. costs \subseteq (IF profile = "Walking" THEN {1, 3, 4, 6} ELSE {2})
    BY <2>1 DEF Impassable
  <2> HIDE DEF costs
  <2> QED
    BY <2>3, <2>4
<1>2. MinimumStepCost(profile) = Min(costs)
  BY DEF MinimumStepCost
<1>3. Min(costs) = IF profile = "Walking" THEN 1 ELSE 2
  <2> HIDE DEF costs
  <2> QED
    BY <1>1 DEF Min
<1> QED
  <2> HIDE DEF costs
  <2> QED
    BY <1>2, <1>3, GroundCosts DEF Impassable, Profile, Ground

(* The distances of two neighbours from a goal differ by one at most.      *)
LEMMA NeighboursAreOneApart ==
  ASSUME NEW b \in Cells, NEW c \in Cells, NEW goal \in Cells, Adjacent(b, c)
  PROVE  /\ Chebyshev(b, goal) \in Nat /\ Chebyshev(c, goal) \in Nat
         /\ Chebyshev(b, goal) <= 1 + Chebyshev(c, goal)
<1>1. /\ b[1] \in Int /\ b[2] \in Int /\ c[1] \in Int /\ c[2] \in Int
      /\ goal[1] \in Int /\ goal[2] \in Int
  BY CellFacts
<1>2. /\ -1 <= b[1] - c[1] /\ b[1] - c[1] <= 1
      /\ -1 <= b[2] - c[2] /\ b[2] - c[2] <= 1
  BY <1>1 DEF Adjacent, Chebyshev, Abs
<1> QED
  BY <1>1, <1>2 DEF Chebyshev, Abs

(* What the search relies on when it discards every later entry of a       *)
(* closed cell: one step never costs less than the estimate drops by it,   *)
(* and at the goal the estimate is zero; with the cheapest step taken over *)
(* the grounds the policy supports, roads included                         *)
(* (AdventurePathfinder.cpp:48-78, 185).                                   *)
THEOREM HeuristicIsConsistent ==
  ASSUME NEW profile \in Profile, NEW mover, NEW nav, nav.ground \in [Cells -> Ground],
         NEW b \in Cells, NEW c \in Cells, NEW goal \in Cells, Adjacent(b, c),
         EnterCost(nav, profile, mover, c) # Impassable
  PROVE  /\ Heuristic(profile, goal, goal) = 0
         /\ Heuristic(profile, b, goal) <=
              EnterCost(nav, profile, mover, c) + Heuristic(profile, c, goal)
<1> DEFINE step == MinimumStepCost(profile)
           cost == EnterCost(nav, profile, mover, c)
           near == Chebyshev(c, goal)
           far == Chebyshev(b, goal)
<1>1. step \in {1, 2}
  BY CheapestStep
<1>2. cost \in Nat /\ cost >= step
  <2>1. cost = GroundCost(profile, nav.ground[c], c \in nav.road) /\ cost # Impassable
    BY DEF EnterCost
  <2>2. nav.ground[c] \in Ground /\ (c \in nav.road) \in BOOLEAN
    OBVIOUS
  <2> QED
    BY <2>1, <2>2, CheapestStep
<1>3. near \in Nat /\ far \in Nat /\ far <= 1 + near
  BY NeighboursAreOneApart
<1>4. Chebyshev(goal, goal) = 0
  BY CellFacts DEF Chebyshev, Abs
<1>5. Heuristic(profile, goal, goal) = 0
  <2> HIDE DEF step
  <2>1. Heuristic(profile, goal, goal) = 0 * step
    BY <1>4 DEF Heuristic, step
  <2> QED
    BY <2>1, <1>1
<1>6. far * step <= cost + near * step
  <2> HIDE DEF far, near, step, cost
  <2>1. CASE step = 1
    BY <2>1, <1>2, <1>3
  <2>2. CASE step = 2
    BY <2>2, <1>2, <1>3
  <2> QED
    BY <2>1, <2>2, <1>1
<1> QED
  BY <1>5, <1>6 DEF Heuristic
-----------------------------------------------------------------------------
(* A query is what find_path is called with, a record [nav, profile, mover,*)
(* start, goal]; the searches for it are those that pass its refusals.     *)
CostOf(q, c) == EnterCost(q.nav, q.profile, q.mover, c)
Ahead(q, c) == Heuristic(q.profile, c, q.goal)
WellAsked(q) ==
  /\ q.nav.ground \in [Cells -> Ground] /\ q.profile \in Profile
  /\ q.start \in Cells /\ q.goal \in Cells /\ q.start # q.goal

OpenEntry == [cell : Cells, g : Nat, h : Nat, seq : Nat]
SearchState ==
  [best : [Cells -> 0 .. Unreached], from : [Cells -> Cells \cup {Nowhere}],
   closed : SUBSET Cells, open : SUBSET OpenEntry, seq : Nat]

(* No two entries are pushed at once, so that the queue has a first one.   *)
OpenIsOrdered(s) ==
  /\ \A e \in s.open : e.seq < s.seq
  /\ \A d, e \in s.open : d.seq = e.seq => d = e

(* An entry was the best way to its cell when it was pushed.               *)
OpenIsPriced(q, s) ==
  \A e \in s.open : e.h = Ahead(q, e.cell) /\ s.best[e.cell] <= e.g /\ e.g < Unreached

(* What is closed was nearer than everything that is open.                 *)
ClosedBeforeOpen(q, s) ==
  /\ \A c \in s.closed : s.best[c] < Unreached
  /\ \A c \in s.closed, e \in s.open : s.best[c] + Ahead(q, c) <= e.g + e.h

(* A cell that is reached is entered from its predecessor, which is closed,*)
(* at the price of the cell.                                               *)
Entered(q, s, c) ==
  /\ s.from[c] \in s.closed /\ Adjacent(s.from[c], c) /\ CostOf(q, c) # Impassable
  /\ s.best[c] = s.best[s.from[c]] + CostOf(q, c) /\ s.best[c] < Unreached
ReachedIsEntered(q, s) ==
  /\ s.best[q.start] = 0 /\ s.from[q.start] = Nowhere
  /\ \A c \in Cells \ {q.start} :
       (s.from[c] = Nowhere /\ s.best[c] = Unreached) \/ Entered(q, s, c)

(* A cell that is reached and not closed waits with its best cost.         *)
ReachedIsOpen(s) ==
  \A c \in Cells \ s.closed : s.best[c] < Unreached => \E e \in s.open : e.cell = c /\ e.g = s.best[c]

(* The neighbours of a closed cell are no further than over that cell.     *)
ClosedIsExpanded(q, s) ==
  \A b \in s.closed \ {q.goal}, c \in Cells :
    Adjacent(b, c) /\ CostOf(q, c) # Impassable => s.best[c] <= s.best[b] + CostOf(q, c)

SearchInv(q, s) ==
  /\ s \in SearchState
  /\ OpenIsOrdered(s) /\ OpenIsPriced(q, s) /\ ClosedBeforeOpen(q, s) /\ ReachedIsEntered(q, s)
  /\ ReachedIsOpen(s) /\ ClosedIsExpanded(q, s)

LEMMA CostFacts ==
  ASSUME NEW q, WellAsked(q), NEW c \in Cells, CostOf(q, c) # Impassable
  PROVE  CostOf(q, c) \in Nat /\ CostOf(q, c) > 0
<1> DEFINE g == q.nav.ground[c]
           r == c \in q.nav.road
<1>1. g \in Ground /\ r \in BOOLEAN /\ q.profile \in Profile
  BY DEF WellAsked
<1>2. CostOf(q, c) = GroundCost(q.profile, g, r)
  BY DEF CostOf, EnterCost
<1>3. GroundCost(q.profile, g, r) \in Nat /\ GroundCost(q.profile, g, r) >= MinimumStepCost(q.profile)
  <2> HIDE DEF g, r
  <2> QED
    BY <1>1, <1>2, CheapestStep
<1>4. MinimumStepCost(q.profile) \in {1, 2}
  BY <1>1, CheapestStep
<1> QED
  BY <1>2, <1>3, <1>4

LEMMA AheadFacts ==
  ASSUME NEW q, WellAsked(q), NEW c \in Cells
  PROVE  /\ Ahead(q, c) \in Nat /\ (c = q.goal => Ahead(q, c) = 0)
         /\ \A b \in Cells : Adjacent(b, c) /\ CostOf(q, c) # Impassable =>
              Ahead(q, b) <= CostOf(q, c) + Ahead(q, c)
<1> DEFINE step == MinimumStepCost(q.profile)
           near == Chebyshev(c, q.goal)
<1>1. step \in {1, 2}
  BY CheapestStep DEF WellAsked
<1>2. near \in Nat /\ (c = q.goal => near = 0)
  <2>1. /\ c[1] \in Int /\ c[2] \in Int /\ q.goal[1] \in Int /\ q.goal[2] \in Int
    BY CellFacts DEF WellAsked
  <2> QED
    BY <2>1 DEF Chebyshev, Abs
<1>3. Ahead(q, c) = near * step
  BY DEF Ahead, Heuristic
<1>4. Ahead(q, c) \in Nat /\ (c = q.goal => Ahead(q, c) = 0)
  <2> HIDE DEF near, step
  <2>1. CASE step = 1
    BY <2>1, <1>2, <1>3
  <2>2. CASE step = 2
    BY <2>2, <1>2, <1>3
  <2> QED
    BY <1>1, <2>1, <2>2
<1>5. ASSUME NEW b \in Cells, Adjacent(b, c), CostOf(q, c) # Impassable
      PROVE  Ahead(q, b) <= CostOf(q, c) + Ahead(q, c)
  BY <1>5, HeuristicIsConsistent DEF WellAsked, CostOf, Ahead
<1> QED
  BY <1>4, <1>5

(* The eight directions lead to the neighbours, each to another one.       *)
LEMMA DirectionFacts ==
  ASSUME NEW b \in Cells
  PROVE  /\ DOMAIN Delta = 1 .. 8
         /\ \A i \in 1 .. 8 : Adjacent(b, Shift(b, i))
         /\ \A i, j \in 1 .. 8 : Shift(b, i) = Shift(b, j) => i = j
         /\ \A c \in Cells : Adjacent(b, c) => \E i \in 1 .. 8 : c = Shift(b, i)
<1>1. b[1] \in Int /\ b[2] \in Int /\ b = <<b[1], b[2]>>
  BY CellFacts
<1>2. /\ Delta[1] = <<0, -1>> /\ Delta[2] = <<1, -1>> /\ Delta[3] = <<1, 0>> /\ Delta[4] = <<1, 1>>
      /\ Delta[5] = <<0, 1>> /\ Delta[6] = <<-1, 1>> /\ Delta[7] = <<-1, 0>> /\ Delta[8] = <<-1, -1>>
      /\ DOMAIN Delta = 1 .. 8
  BY DEF Delta
<1> DEFINE to(i) == Shift(b, i)
<1>3. /\ to(1) = <<b[1], b[2] - 1>> /\ to(2) = <<b[1] + 1, b[2] - 1>>
      /\ to(3) = <<b[1] + 1, b[2]>> /\ to(4) = <<b[1] + 1, b[2] + 1>>
      /\ to(5) = <<b[1], b[2] + 1>> /\ to(6) = <<b[1] - 1, b[2] + 1>>
      /\ to(7) = <<b[1] - 1, b[2]>> /\ to(8) = <<b[1] - 1, b[2] - 1>>
  BY <1>1, <1>2 DEF Shift
<1>4. \A i \in 1 .. 8 : i = 1 \/ i = 2 \/ i = 3 \/ i = 4 \/ i = 5 \/ i = 6 \/ i = 7 \/ i = 8
  OBVIOUS
<1>5. ASSUME NEW i \in 1 .. 8 PROVE Adjacent(b, to(i))
  <2> HIDE DEF to
  <2>1. /\ to(i)[1] \in Int /\ to(i)[2] \in Int
        /\ to(i)[1] - b[1] \in -1 .. 1 /\ to(i)[2] - b[2] \in -1 .. 1
        /\ to(i)[1] # b[1] \/ to(i)[2] # b[2]
    BY <1>1, <1>3, <1>4
  <2> QED
    BY <2>1, <1>1 DEF Adjacent, Chebyshev, Abs
<1>6. ASSUME NEW i \in 1 .. 8, NEW j \in 1 .. 8, to(i) = to(j) PROVE i = j
  <2> HIDE DEF to
  <2> DEFINE number(k) == (to(k)[1] - b[1]) * 10 + (to(k)[2] - b[2])
  <2>1. /\ number(1) = -1 /\ number(2) = 9 /\ number(3) = 10 /\ number(4) = 11
        /\ number(5) = 1 /\ number(6) = -9 /\ number(7) = -10 /\ number(8) = -11
    BY <1>1, <1>3
  <2>2. number(i) = number(j)
    BY <1>6
  <2> HIDE DEF number
  <2> QED
    BY <2>1, <2>2, <1>4
<1>7. ASSUME NEW c \in Cells, Adjacent(b, c) PROVE \E i \in 1 .. 8 : c = to(i)
  <2>1. c[1] \in Int /\ c[2] \in Int /\ c = <<c[1], c[2]>>
    BY CellFacts
  <2>2. c[1] - b[1] \in -1 .. 1 /\ c[2] - b[2] \in -1 .. 1
    BY <1>1, <1>7, <2>1 DEF Adjacent, Chebyshev, Abs
  <2>3. c[1] # b[1] \/ c[2] # b[2]
    BY <1>1, <1>7, <2>1 DEF Adjacent
  <2> DEFINE x == c[1]
             y == c[2]
  <2>4. /\ x = b[1] - 1 \/ x = b[1] \/ x = b[1] + 1
        /\ y = b[2] - 1 \/ y = b[2] \/ y = b[2] + 1
    BY <2>1, <2>2, <1>1
  <2> HIDE DEF to
  <2> QED
    BY <2>1, <2>3, <2>4, <1>3
<1> QED
  BY <1>2, <1>5, <1>6, <1>7

(* The queue's first entry has the least estimate of the whole way.        *)
LEMMA TopOfOpen ==
  ASSUME NEW s, s.open \subseteq OpenEntry, OpenIsOrdered(s), s.open # {}
  PROVE  /\ Top(s.open) \in s.open
         /\ \A o \in s.open : Top(s.open).g + Top(s.open).h <= o.g + o.h
<1>1. \A o \in s.open : o.g \in Nat /\ o.h \in Nat /\ o.seq \in Nat /\ o.g + o.h \in Nat
  BY DEF OpenEntry
<1> DEFINE F == {o.g + o.h : o \in s.open}
<1>2. PICK f \in F : \A k \in F : f <= k
  <2>1. F \in SUBSET Nat /\ F # {}
    BY <1>1
  <2> HIDE DEF F
  <2> QED
    BY <2>1, LeastExists
<1>3. \A o \in s.open : f <= o.g + o.h
  BY <1>2
<1> DEFINE H == {o.h : o \in {o \in s.open : o.g + o.h = f}}
<1>4. PICK h \in H : \A k \in H : h <= k
  <2>1. H \in SUBSET Nat /\ H # {}
    BY <1>1
  <2> HIDE DEF H
  <2> QED
    BY <2>1, LeastExists
<1>5. \A o \in s.open : o.g + o.h = f => h <= o.h
  BY <1>4
<1> DEFINE Q == {o.seq : o \in {o \in s.open : o.g + o.h = f /\ o.h = h}}
<1>6. PICK q \in Q : \A k \in Q : q <= k
  <2>1. Q \in SUBSET Nat /\ Q # {}
    BY <1>1
  <2> HIDE DEF Q
  <2> QED
    BY <2>1, LeastExists
<1>7. \A o \in s.open : o.g + o.h = f /\ o.h = h => q <= o.seq
  BY <1>6
<1>8. PICK e \in s.open : e.g + e.h = f /\ e.h = h /\ e.seq = q
  OBVIOUS
<1> HIDE DEF F, H, Q
<1>9. ASSUME NEW o \in s.open \ {e} PROVE Before(e, o)
  <2>1. o.seq # e.seq
    BY DEF OpenIsOrdered
  <2> QED
    BY <2>1, <1>1, <1>3, <1>5, <1>7, <1>8 DEF Before
<1>10. Top(s.open) \in s.open /\ \A o \in s.open \ {Top(s.open)} : Before(Top(s.open), o)
  BY <1>9 DEF Top
<1> HIDE DEF Top
<1> QED
  BY <1>1, <1>10 DEF Before

LEMMA UnreachedIsNatural == Unreached \in Nat /\ Unreached > 0
<1>1. 6 * Width \in Nat /\ Height \in Nat
  BY MapAssumption
<1>2. \A m, n \in Nat : m * n \in Nat
  OBVIOUS
<1>3. (6 * Width) * Height \in Nat
  <2> DEFINE a == 6 * Width
  <2>1. a \in Nat
    BY <1>1
  <2> HIDE DEF a
  <2> QED
    BY <2>1, <1>1, <1>2 DEF a
<1> QED
  <2> DEFINE b == (6 * Width) * Height
  <2>1. b \in Nat
    BY <1>3
  <2>2. Unreached = b + 1
    BY DEF Unreached
  <2> HIDE DEF b
  <2> QED
    BY <2>1, <2>2

LEMMA StartKeepsInv ==
  ASSUME NEW q, WellAsked(q)
  PROVE  SearchInv(q, StartSearch(q.profile, q.start, q.goal))
<1> DEFINE s == StartSearch(q.profile, q.start, q.goal)
           e == [cell |-> q.start, g |-> 0, h |-> Ahead(q, q.start), seq |-> 0]
<1>1. /\ s.best = [c \in Cells |-> IF c = q.start THEN 0 ELSE Unreached]
      /\ s.from = [c \in Cells |-> Nowhere] /\ s.closed = {} /\ s.seq = 1 /\ s.open = {e}
      /\ s = [best |-> s.best, from |-> s.from, closed |-> s.closed, open |-> s.open, seq |-> s.seq]
  BY DEF StartSearch, Ahead
<1>2. Ahead(q, q.start) \in Nat /\ q.start \in Cells
  BY AheadFacts DEF WellAsked
<1>3. Unreached \in Nat /\ Unreached > 0
  BY UnreachedIsNatural
<1>4. e \in OpenEntry
  BY <1>2 DEF OpenEntry
<1> HIDE DEF s, e
<1>5. s \in SearchState
  BY <1>1, <1>2, <1>3, <1>4 DEF SearchState
<1>6. e.cell = q.start /\ e.g = 0 /\ e.h = Ahead(q, q.start) /\ e.seq = 0
  BY DEF e
<1>7. OpenIsOrdered(s) /\ OpenIsPriced(q, s) /\ ClosedBeforeOpen(q, s) /\ ClosedIsExpanded(q, s)
  BY <1>1, <1>2, <1>3, <1>6 DEF OpenIsOrdered, OpenIsPriced, ClosedBeforeOpen, ClosedIsExpanded
<1>8. ReachedIsEntered(q, s) /\ ReachedIsOpen(s)
  BY <1>1, <1>2, <1>3, <1>6 DEF ReachedIsEntered, ReachedIsOpen
<1> QED
  BY <1>5, <1>7, <1>8 DEF SearchInv, s

LEMMA PopKeepsInv ==
  ASSUME NEW q, WellAsked(q), NEW s, SearchInv(q, s), s.open # {}, Stale(s, Top(s.open))
  PROVE  SearchInv(q, Popped(s))
<1> DEFINE e == Top(s.open)
           t == Popped(s)
<1>1. /\ t.best = s.best /\ t.from = s.from /\ t.closed = s.closed /\ t.open = s.open \ {e}
      /\ t.seq = s.seq /\ t \in SearchState
  BY DEF SearchInv, SearchState, Popped
<1> HIDE DEF t, e
<1>2. OpenIsOrdered(t) /\ OpenIsPriced(q, t) /\ ClosedBeforeOpen(q, t) /\ ClosedIsExpanded(q, t)
  BY <1>1 DEF SearchInv, OpenIsOrdered, OpenIsPriced, ClosedBeforeOpen, ClosedIsExpanded
<1>3. ReachedIsEntered(q, t)
  BY <1>1 DEF SearchInv, ReachedIsEntered, Entered
<1>4. ReachedIsOpen(t)
  BY <1>1 DEF SearchInv, ReachedIsOpen, Stale, e
<1> QED
  BY <1>1, <1>2, <1>3, <1>4 DEF SearchInv, t

(* What an entry that is not void says of its cell.                        *)
LEMMA FreshEntry ==
  ASSUME NEW q, WellAsked(q), NEW s, SearchInv(q, s), s.open # {}, ~Stale(s, Top(s.open))
  PROVE  LET e == Top(s.open) IN
         /\ e \in s.open /\ e \in OpenEntry
         /\ e.cell \in Cells \ s.closed /\ e.g = s.best[e.cell] /\ e.g < Unreached
         /\ e.h = Ahead(q, e.cell)
         /\ \A o \in s.open : e.g + e.h <= o.g + o.h
<1>1. Top(s.open) \in s.open /\ \A o \in s.open : Top(s.open).g + Top(s.open).h <= o.g + o.h
  BY TopOfOpen DEF SearchInv, SearchState
<1>2. Top(s.open) \in OpenEntry
  BY <1>1 DEF SearchInv, SearchState
<1> QED
  BY <1>1, <1>2 DEF SearchInv, OpenIsPriced, Stale, OpenEntry

LEMMA ArriveKeepsInv ==
  ASSUME NEW q, WellAsked(q), NEW s, SearchInv(q, s), s.open # {}, ~Stale(s, Top(s.open)),
         Top(s.open).cell = q.goal
  PROVE  SearchInv(q, Closed(Popped(s), Top(s.open)))
<1> DEFINE e == Top(s.open)
           t == Closed(Popped(s), e)
<1>1. /\ t.best = s.best /\ t.from = s.from /\ t.closed = s.closed \cup {q.goal}
      /\ t.open = s.open \ {e} /\ t.seq = s.seq /\ t \in SearchState
  BY DEF SearchInv, SearchState, Popped, Closed, WellAsked
<1>2. /\ e.cell = q.goal /\ e.g = s.best[q.goal] /\ e.h = Ahead(q, q.goal) /\ e.g < Unreached
      /\ \A o \in s.open : e.g + e.h <= o.g + o.h
  BY FreshEntry
<1> HIDE DEF t, e
<1>3. OpenIsOrdered(t) /\ OpenIsPriced(q, t) /\ ClosedBeforeOpen(q, t) /\ ClosedIsExpanded(q, t)
  BY <1>1, <1>2 DEF SearchInv, OpenIsOrdered, OpenIsPriced, ClosedBeforeOpen, ClosedIsExpanded
<1>4. ReachedIsEntered(q, t)
  BY <1>1 DEF SearchInv, ReachedIsEntered, Entered
<1>5. ReachedIsOpen(t)
  BY <1>1, <1>2 DEF SearchInv, ReachedIsOpen
<1> QED
  BY <1>1, <1>3, <1>4, <1>5 DEF SearchInv, t, e

(* What one expansion does, cell by cell and entry by entry.               *)
LEMMA ExpandedFacts ==
  ASSUME NEW q, WellAsked(q), NEW s, SearchInv(q, s), s.open # {}, ~Stale(s, Top(s.open))
  PROVE  LET e == Top(s.open)
             t == Expanded(q.nav, q.profile, q.mover, q.goal, Closed(Popped(s), e), e)
             Better(c) == /\ c \in Cells /\ Adjacent(e.cell, c) /\ CostOf(q, c) # Impassable
                          /\ e.g + CostOf(q, c) < s.best[c]
         IN  /\ t = [best |-> t.best, from |-> t.from, closed |-> t.closed, open |-> t.open, seq |-> t.seq]
             /\ t.best = [c \in Cells |-> IF Better(c) THEN e.g + CostOf(q, c) ELSE s.best[c]]
             /\ t.from = [c \in Cells |-> IF Better(c) THEN e.cell ELSE s.from[c]]
             /\ t.closed = s.closed \cup {e.cell}
             /\ t.seq \in Nat /\ s.open \ {e} \subseteq t.open
             /\ \A c \in Cells : Better(c) => \E o \in t.open : o.cell = c /\ o.g = e.g + CostOf(q, c)
             /\ \A o \in t.open \ (s.open \ {e}) :
                  /\ Better(o.cell) /\ o.g = e.g + CostOf(q, o.cell) /\ o.h = Ahead(q, o.cell)
                  /\ o.seq \in s.seq .. t.seq - 1
                  /\ o = [cell |-> o.cell, g |-> o.g, h |-> o.h, seq |-> o.seq]
             /\ \A o, p \in t.open \ (s.open \ {e}) : o.seq = p.seq => o = p
             /\ s.seq <= t.seq
<1> DEFINE e == Top(s.open)
           u == Closed(Popped(s), e)
           t == Expanded(q.nav, q.profile, q.mover, q.goal, u, e)
           Better(c) == /\ c \in Cells /\ Adjacent(e.cell, c) /\ CostOf(q, c) # Impassable
                        /\ e.g + CostOf(q, c) < s.best[c]
           better == Improving(q.nav, q.profile, q.mover, u, e)
           To(i) == Shift(e.cell, i)
           Number(i) == Cardinality({j \in better : j < i})
           New(c) == e.g + EnterCost(q.nav, q.profile, q.mover, c)
           Entry(i) == [cell |-> To(i), g |-> New(To(i)), h |-> Heuristic(q.profile, To(i), q.goal),
                        seq |-> u.seq + Number(i)]
           Reached == {To(i) : i \in better}
<1>1. /\ u.best = s.best /\ u.from = s.from /\ u.closed = s.closed \cup {e.cell}
      /\ u.open = s.open \ {e} /\ u.seq = s.seq
      /\ s.best \in [Cells -> 0 .. Unreached] /\ s.from \in [Cells -> Cells \cup {Nowhere}] /\ s.seq \in Nat
  BY DEF SearchInv, SearchState, Popped, Closed
<1>2. /\ e \in s.open /\ e.cell \in Cells
  BY FreshEntry
<1>3. t = [best |-> [c \in Cells |-> IF c \in Reached THEN New(c) ELSE u.best[c]],
           from |-> [c \in Cells |-> IF c \in Reached THEN e.cell ELSE u.from[c]],
           closed |-> u.closed, open |-> u.open \cup {Entry(i) : i \in better},
           seq |-> u.seq + Cardinality(better)]
  BY Zenon DEF Expanded
<1>4. better = {i \in 1 .. 8 : Better(To(i))}
  <2>1. DOMAIN Delta = 1 .. 8
    BY <1>2, DirectionFacts
  <2>2. better = {i \in DOMAIN Delta : /\ To(i) \in Cells /\ CostOf(q, To(i)) # Impassable
                                       /\ e.g + CostOf(q, To(i)) < u.best[To(i)]}
    BY Zenon DEF Improving, CostOf
  <2>3. \A i \in 1 .. 8 : Adjacent(e.cell, To(i))
    BY <1>2, DirectionFacts
  <2> HIDE DEF u, e, To, better
  <2> QED
    BY <2>1, <2>2, <2>3, <1>1
<1> DEFINE Start == s.open \ {e}
<1>5. /\ IsFiniteSet(better) /\ Cardinality(better) \in Nat
      /\ \A i \in better : Number(i) \in 0 .. Cardinality(better) - 1
      /\ \A i, j \in better : i < j => Number(i) < Number(j)
  <2> HIDE DEF better
  <2>1. better \subseteq 1 .. 8
    BY <1>4
  <2>2. IsFiniteSet(better) /\ Cardinality(better) \in Nat
    <3>1. IsFiniteSet(1 .. 8)
      <4>1. 1 \in Int /\ 8 \in Int
        OBVIOUS
      <4> QED
        BY ONLY <4>1, FS_Interval
    <3>2. IsFiniteSet(better)
      BY <2>1, <3>1, FS_Subset
    <3> QED
      BY <3>2, FS_CardinalityType
  <2> DEFINE Below(i) == {j \in better : j < i}
  <2>3. \A i \in better : IsFiniteSet(Below(i)) /\ Cardinality(Below(i)) \in Nat
    BY <2>2, FS_Subset, FS_CardinalityType
  <2>4. ASSUME NEW i \in better PROVE Cardinality(Below(i)) < Cardinality(better)
    <3>1. Below(i) \subseteq better /\ Below(i) # better
      BY <2>1, <2>4
    <3> HIDE DEF Below
    <3>2. /\ Cardinality(Below(i)) <= Cardinality(better)
          /\ Cardinality(better) = Cardinality(Below(i)) => better = Below(i)
      BY <3>1, <2>2, FS_Subset
    <3> QED
      BY <3>1, <3>2, <2>2, <2>3
  <2>5. ASSUME NEW i \in better, NEW j \in better, i < j PROVE Cardinality(Below(i)) < Cardinality(Below(j))
    <3>1. Below(i) \subseteq Below(j) /\ Below(i) # Below(j)
      <4>1. i \in Below(j) /\ i \notin Below(i)
        BY <2>1, <2>5
      <4>2. Below(i) \subseteq Below(j)
        <5>1. \A k \in better : k \in Int /\ (k < i => k < j)
          BY <2>1, <2>5
        <5> QED
          BY <5>1
      <4> QED
        BY <4>1, <4>2
    <3>2. IsFiniteSet(Below(j))
      BY <2>3
    <3> HIDE DEF Below
    <3>3. /\ Cardinality(Below(i)) <= Cardinality(Below(j))
          /\ Cardinality(Below(j)) = Cardinality(Below(i)) => Below(j) = Below(i)
      BY <3>1, <3>2, FS_Subset
    <3> QED
      BY <3>1, <3>3, <2>3
  <2>6. \A i \in better : Number(i) = Cardinality(Below(i))
    OBVIOUS
  <2> HIDE DEF Below, Number
  <2> QED
    BY <2>2, <2>3, <2>4, <2>5, <2>6
<1>6. \A c \in Cells : Better(c) <=> \E i \in better : c = To(i)
  <2>1. \A c \in Cells : Adjacent(e.cell, c) => \E i \in 1 .. 8 : c = To(i)
    BY <1>2, DirectionFacts
  <2>2. \A c : Better(c) => c \in Cells /\ Adjacent(e.cell, c)
    OBVIOUS
  <2> HIDE DEF Better, To, better
  <2> QED
    BY <1>4, <2>1, <2>2
<1>7. Reached \subseteq Cells /\ \A c \in Cells : c \in Reached <=> Better(c)
  <2>1. \A i \in better : To(i) \in Cells
    BY <1>4
  <2> HIDE DEF Better, To, better
  <2> QED
    BY <2>1, <1>6
<1> HIDE DEF Reached, better, Number, To, e, u, t, Better
<1>8. \A c : New(c) = e.g + CostOf(q, c)
  BY DEF CostOf
<1> HIDE DEF New
<1>9. /\ t.best = [c \in Cells |-> IF c \in Reached THEN New(c) ELSE u.best[c]]
      /\ t.from = [c \in Cells |-> IF c \in Reached THEN e.cell ELSE u.from[c]]
      /\ t.closed = u.closed /\ t.open = u.open \cup {Entry(i) : i \in better}
      /\ t.seq = u.seq + Cardinality(better)
  BY <1>3
<1>10. /\ t.best = [c \in Cells |-> IF Better(c) THEN e.g + CostOf(q, c) ELSE s.best[c]]
       /\ t.from = [c \in Cells |-> IF Better(c) THEN e.cell ELSE s.from[c]]
  BY <1>1, <1>7, <1>8, <1>9
<1>11. \A o \in t.open \ (s.open \ {e}) : \E i \in better : o = Entry(i)
  BY <1>1, <1>9
<1>12. \A i \in better : Entry(i) \in t.open
  BY <1>1, <1>9
<1>13. \A i \in better : /\ Entry(i).cell = To(i) /\ Entry(i).g = e.g + CostOf(q, To(i))
                         /\ Entry(i).h = Ahead(q, To(i)) /\ Entry(i).seq = s.seq + Number(i)
                         /\ Better(To(i)) /\ To(i) \in Cells
                         /\ Entry(i) = [cell |-> Entry(i).cell, g |-> Entry(i).g, h |-> Entry(i).h,
                                        seq |-> Entry(i).seq]
  BY <1>1, <1>4, <1>8 DEF Ahead, Better
<1> HIDE DEF Entry
<1>14. \A o \in t.open \ (s.open \ {e}) :
         /\ Better(o.cell) /\ o.g = e.g + CostOf(q, o.cell) /\ o.h = Ahead(q, o.cell)
         /\ o.seq \in s.seq .. t.seq - 1
         /\ o = [cell |-> o.cell, g |-> o.g, h |-> o.h, seq |-> o.seq]
  BY <1>1, <1>5, <1>9, <1>11, <1>13
<1>15. ASSUME NEW o \in t.open \ (s.open \ {e}), NEW p \in t.open \ (s.open \ {e}), o.seq = p.seq PROVE o = p
  <2>1. PICK i \in better : o = Entry(i)
    BY <1>11
  <2>2. PICK j \in better : p = Entry(j)
    BY <1>11
  <2>3. Number(i) = Number(j) /\ i \in Int /\ j \in Int
    BY <2>1, <2>2, <1>15, <1>13, <1>1, <1>5, <1>4
  <2>4. i = j
    BY <2>3, <1>5
  <2> QED
    BY <2>1, <2>2, <2>4
<1>16. \A c \in Cells : Better(c) => \E o \in t.open : o.cell = c /\ o.g = e.g + CostOf(q, c)
  BY <1>6, <1>12, <1>13
<1>17. /\ t.closed = s.closed \cup {e.cell} /\ t.seq \in Nat /\ s.seq <= t.seq /\ s.open \ {e} \subseteq t.open
  BY <1>1, <1>5, <1>9
<1>18. t = [best |-> t.best, from |-> t.from, closed |-> t.closed, open |-> t.open, seq |-> t.seq]
  BY <1>3, <1>9
<1> QED
  BY <1>10, <1>14, <1>15, <1>16, <1>17, <1>18 DEF e, u, t, Better

(* An expansion changes no closed cell: with a consistent estimate nothing *)
(* it finds is nearer than what was closed before.                         *)
LEMMA ExpandKeepsInv ==
  ASSUME NEW q, WellAsked(q), NEW s, SearchInv(q, s), s.open # {}, ~Stale(s, Top(s.open)),
         Top(s.open).cell # q.goal
  PROVE  SearchInv(q, Expanded(q.nav, q.profile, q.mover, q.goal, Closed(Popped(s), Top(s.open)), Top(s.open)))
<1> DEFINE e == Top(s.open)
           t == Expanded(q.nav, q.profile, q.mover, q.goal, Closed(Popped(s), e), e)
           Better(c) == /\ c \in Cells /\ Adjacent(e.cell, c) /\ CostOf(q, c) # Impassable
                        /\ e.g + CostOf(q, c) < s.best[c]
           Fresh == t.open \ (s.open \ {e})
<1>1. /\ t = [best |-> t.best, from |-> t.from, closed |-> t.closed, open |-> t.open, seq |-> t.seq]
      /\ t.best = [c \in Cells |-> IF Better(c) THEN e.g + CostOf(q, c) ELSE s.best[c]]
      /\ t.from = [c \in Cells |-> IF Better(c) THEN e.cell ELSE s.from[c]]
      /\ t.closed = s.closed \cup {e.cell}
      /\ t.seq \in Nat /\ s.seq <= t.seq /\ s.open \ {e} \subseteq t.open
      /\ \A c \in Cells : Better(c) => \E o \in t.open : o.cell = c /\ o.g = e.g + CostOf(q, c)
      /\ \A o \in Fresh : /\ Better(o.cell) /\ o.g = e.g + CostOf(q, o.cell) /\ o.h = Ahead(q, o.cell)
                          /\ o.seq \in s.seq .. t.seq - 1
                          /\ o = [cell |-> o.cell, g |-> o.g, h |-> o.h, seq |-> o.seq]
      /\ \A o, p \in Fresh : o.seq = p.seq => o = p
  BY ExpandedFacts
<1>2. /\ e \in s.open /\ e.cell \in Cells \ s.closed /\ e.g = s.best[e.cell] /\ e.g < Unreached
      /\ e.h = Ahead(q, e.cell) /\ e.g \in Nat /\ e.h \in Nat
      /\ \A o \in s.open : e.g + e.h <= o.g + o.h
  BY FreshEntry DEF OpenEntry
<1>3. /\ s.best \in [Cells -> 0 .. Unreached] /\ s.from \in [Cells -> Cells \cup {Nowhere}]
      /\ s.closed \subseteq Cells /\ s.open \subseteq OpenEntry /\ s.seq \in Nat
      /\ Unreached \in Nat /\ q.start \in Cells /\ q.goal \in Cells /\ e.cell # q.goal
  BY UnreachedIsNatural DEF SearchInv, SearchState, WellAsked
<1>4. \A c \in Cells : /\ Ahead(q, c) \in Nat
                       /\ CostOf(q, c) # Impassable => CostOf(q, c) \in Nat /\ CostOf(q, c) > 0
                       /\ Adjacent(e.cell, c) /\ CostOf(q, c) # Impassable =>
                            e.h <= CostOf(q, c) + Ahead(q, c)
  BY <1>2, AheadFacts, CostFacts
<1>5. \A c : Better(c) <=> /\ c \in Cells /\ Adjacent(e.cell, c) /\ CostOf(q, c) # Impassable
                           /\ e.g + CostOf(q, c) < s.best[c]
  OBVIOUS
<1>6. ~Adjacent(e.cell, e.cell)
  BY DEF Adjacent
<1> HIDE DEF t, e, Better
<1>7. \A c \in t.closed : ~Better(c)
  <2>1. ASSUME NEW c \in s.closed PROVE ~Better(c)
    <3>1. s.best[c] + Ahead(q, c) <= e.g + e.h
      BY <1>2 DEF SearchInv, ClosedBeforeOpen
    <3> QED
      BY <3>1, <1>2, <1>3, <1>4, <1>5
  <2> QED
    BY <2>1, <1>1, <1>5, <1>6
<1>8. ~Better(q.start)
  BY <1>2, <1>3, <1>4, <1>5 DEF SearchInv, ReachedIsEntered
<1>9. \A c \in Cells : /\ t.best[c] = IF Better(c) THEN e.g + CostOf(q, c) ELSE s.best[c]
                       /\ t.from[c] = IF Better(c) THEN e.cell ELSE s.from[c]
                       /\ t.best[c] \in 0 .. Unreached /\ t.best[c] <= s.best[c]
                       /\ Better(c) => t.best[c] < Unreached
  BY <1>1, <1>2, <1>3, <1>4, <1>5
<1>10. \A o \in Fresh : o \in OpenEntry /\ o.g = t.best[o.cell]
  BY <1>1, <1>2, <1>3, <1>4, <1>5, <1>9 DEF OpenEntry
<1>11. t \in SearchState
  <2>1. t.best \in [Cells -> 0 .. Unreached]
    BY <1>1, <1>9
  <2>2. t.from \in [Cells -> Cells \cup {Nowhere}]
    BY <1>1, <1>2, <1>3
  <2>3. t.closed \subseteq Cells /\ t.open \subseteq OpenEntry
    BY <1>1, <1>2, <1>3, <1>10
  <2> QED
    BY <2>1, <2>2, <2>3, <1>1 DEF SearchState
<1> HIDE DEF Fresh
<1>12. t.open = (s.open \ {e}) \cup Fresh
  BY <1>1 DEF Fresh
<1>13. OpenIsOrdered(t)
  <2>1. \A o \in s.open : o.seq \in Nat /\ o.seq < s.seq
    BY <1>3 DEF SearchInv, OpenIsOrdered, OpenEntry
  <2>2. \A o \in Fresh : o.seq \in Nat /\ s.seq <= o.seq /\ o.seq < t.seq
    BY <1>1, <1>3
  <2>3. \A o, p \in s.open : o.seq = p.seq => o = p
    BY DEF SearchInv, OpenIsOrdered
  <2> QED
    BY <1>1, <1>3, <1>12, <2>1, <2>2, <2>3 DEF OpenIsOrdered
<1>14. OpenIsPriced(q, t)
  <2>1. ASSUME NEW o \in s.open PROVE o.h = Ahead(q, o.cell) /\ t.best[o.cell] <= o.g /\ o.g < Unreached
    <3>1. o.cell \in Cells /\ o.g \in Nat /\ o.h = Ahead(q, o.cell) /\ s.best[o.cell] <= o.g /\ o.g < Unreached
      BY <1>3 DEF SearchInv, OpenIsPriced, OpenEntry
    <3> QED
      BY <3>1, <1>3, <1>9
  <2>2. ASSUME NEW o \in Fresh PROVE o.h = Ahead(q, o.cell) /\ t.best[o.cell] <= o.g /\ o.g < Unreached
    <3>1. o \in OpenEntry /\ o.cell \in Cells /\ o.g = t.best[o.cell] /\ Better(o.cell) /\ o.h = Ahead(q, o.cell)
      BY <1>1, <1>10 DEF OpenEntry
    <3> QED
      BY <3>1, <1>3, <1>9
  <2> QED
    BY <1>12, <2>1, <2>2 DEF OpenIsPriced
<1>15. ClosedBeforeOpen(q, t)
  <2>1. ASSUME NEW c \in t.closed
        PROVE  /\ c \in Cells /\ t.best[c] = s.best[c] /\ s.best[c] < Unreached
               /\ s.best[c] + Ahead(q, c) <= e.g + e.h
    <3>1. CASE c \in s.closed
      BY <3>1, <1>2, <1>3, <1>7, <1>9 DEF SearchInv, ClosedBeforeOpen
    <3>2. CASE c = e.cell
      BY <3>2, <2>1, <1>2, <1>3, <1>7, <1>9
    <3> QED
      BY <3>1, <3>2, <1>1
  <2>2. ASSUME NEW o \in t.open PROVE e.g + e.h <= o.g + o.h /\ o.g \in Nat /\ o.h \in Nat
    <3>1. CASE o \in s.open
      BY <3>1, <1>2, <1>3 DEF OpenEntry
    <3>2. CASE o \in Fresh
      <4>1. /\ Better(o.cell) /\ o.g = e.g + CostOf(q, o.cell) /\ o.h = Ahead(q, o.cell)
        BY <3>2, <1>1
      <4>2. /\ o.cell \in Cells /\ CostOf(q, o.cell) \in Nat /\ Ahead(q, o.cell) \in Nat
            /\ e.h <= CostOf(q, o.cell) + Ahead(q, o.cell)
        BY <4>1, <1>4, <1>5
      <4> QED
        BY <4>1, <4>2, <1>2
    <3> QED
      BY <3>1, <3>2, <1>12
  <2>3. ASSUME NEW c \in t.closed, NEW o \in t.open PROVE t.best[c] + Ahead(q, c) <= o.g + o.h
    <3>1. s.best[c] \in Nat /\ Ahead(q, c) \in Nat
      BY <2>1, <1>3, <1>4
    <3> QED
      BY <3>1, <2>1, <2>2, <1>2
  <2> QED
    BY <2>1, <2>3 DEF ClosedBeforeOpen
<1>16. ReachedIsEntered(q, t)
  <2>1. t.best[q.start] = 0 /\ t.from[q.start] = Nowhere
    BY <1>3, <1>8, <1>9 DEF SearchInv, ReachedIsEntered
  <2>2. ASSUME NEW c \in Cells \ {q.start}
        PROVE  (t.from[c] = Nowhere /\ t.best[c] = Unreached) \/ Entered(q, t, c)
    <3>1. CASE Better(c)
      <4>1. t.from[c] = e.cell /\ e.cell \in t.closed /\ Adjacent(e.cell, c) /\ CostOf(q, c) # Impassable
        BY <3>1, <1>1, <1>5, <1>9
      <4>2. t.best[e.cell] = e.g /\ t.best[c] = e.g + CostOf(q, c) /\ t.best[c] < Unreached
        BY <3>1, <4>1, <1>2, <1>7, <1>9
      <4> QED
        BY <4>1, <4>2 DEF Entered
    <3>2. CASE ~Better(c)
      <4>1. t.from[c] = s.from[c] /\ t.best[c] = s.best[c]
        BY <3>2, <1>9
      <4>2. CASE Entered(q, s, c)
        <5>1. s.from[c] \in t.closed /\ s.from[c] \in Cells
          BY <4>2, <1>1, <1>3 DEF Entered
        <5>2. t.best[s.from[c]] = s.best[s.from[c]]
          BY <5>1, <1>7, <1>9
        <5> QED
          BY <4>1, <4>2, <5>1, <5>2 DEF Entered
      <4>3. CASE s.from[c] = Nowhere /\ s.best[c] = Unreached
        BY <4>1, <4>3
      <4> QED
        BY <4>2, <4>3 DEF SearchInv, ReachedIsEntered
    <3> QED
      BY <3>1, <3>2
  <2> QED
    BY <2>1, <2>2 DEF ReachedIsEntered
<1>17. ReachedIsOpen(t)
  <2>1. ASSUME NEW c \in Cells \ t.closed, t.best[c] < Unreached
        PROVE  \E o \in t.open : o.cell = c /\ o.g = t.best[c]
    <3>1. CASE Better(c)
      BY <3>1, <1>1, <1>9
    <3>2. CASE ~Better(c)
      <4>1. t.best[c] = s.best[c] /\ c \in Cells \ s.closed /\ c # e.cell
        BY <3>2, <2>1, <1>1, <1>9
      <4>2. PICK o \in s.open : o.cell = c /\ o.g = s.best[c]
        BY <4>1, <2>1 DEF SearchInv, ReachedIsOpen
      <4> QED
        BY <4>1, <4>2, <1>1
    <3> QED
      BY <3>1, <3>2
  <2> QED
    BY <2>1 DEF ReachedIsOpen
<1>18. ClosedIsExpanded(q, t)
  <2>1. ASSUME NEW b \in t.closed \ {q.goal}, NEW c \in Cells, Adjacent(b, c), CostOf(q, c) # Impassable
        PROVE  t.best[c] <= t.best[b] + CostOf(q, c)
    <3>1. t.best[b] = s.best[b] /\ b \in Cells /\ s.best[b] \in Nat
      BY <1>1, <1>2, <1>3, <1>7, <1>9
    <3>2. CASE b \in s.closed
      <4>1. s.best[c] <= s.best[b] + CostOf(q, c)
        BY <3>2, <2>1 DEF SearchInv, ClosedIsExpanded
      <4> QED
        BY <4>1, <3>1, <2>1, <1>3, <1>4, <1>9
    <3>3. CASE b = e.cell
      BY <3>1, <3>3, <2>1, <1>2, <1>3, <1>4, <1>5, <1>9
    <3> QED
      BY <3>2, <3>3, <1>1
  <2> QED
    BY <2>1 DEF ClosedIsExpanded
<1> QED
  BY <1>11, <1>13, <1>14, <1>15, <1>16, <1>17, <1>18 DEF SearchInv, t, e

-----------------------------------------------------------------------------
(* One round of the loop, and the search as the rounds it takes.           *)
Round(q, s) ==
  IF s.open = {} \/ Arrived(s, q.goal) THEN s ELSE Iterated(q.nav, q.profile, q.mover, q.goal, s)
Searches(q) == {s \in SearchState : SearchInv(q, s)}
SearchedFor(q) == Searched(q.nav, q.profile, q.mover, q.start, q.goal)

LEMMA RoundKeepsInv ==
  ASSUME NEW q, WellAsked(q), NEW s, SearchInv(q, s)
  PROVE  SearchInv(q, Round(q, s))
<1> DEFINE e == Top(s.open)
           next == Iterated(q.nav, q.profile, q.mover, q.goal, s)
<1>1. CASE s.open = {} \/ Arrived(s, q.goal)
  BY <1>1 DEF Round
<1>2. CASE s.open # {} /\ ~Arrived(s, q.goal)
  <2>1. Round(q, s) = next
    BY <1>2 DEF Round
  <2>2. CASE Stale(s, e)
    <3>1. next = Popped(s)
      BY <2>2, Zenon DEF Iterated
    <3> QED
      BY <2>1, <2>2, <3>1, <1>2, PopKeepsInv
  <2>3. CASE ~Stale(s, e) /\ e.cell = q.goal
    <3>1. next = Closed(Popped(s), e)
      BY <2>3, Zenon DEF Iterated
    <3> QED
      BY <2>1, <2>3, <3>1, <1>2, ArriveKeepsInv
  <2>4. CASE ~Stale(s, e) /\ e.cell # q.goal
    <3>1. next = Expanded(q.nav, q.profile, q.mover, q.goal, Closed(Popped(s), e), e)
      BY <2>4, Zenon DEF Iterated
    <3> QED
      BY <2>1, <2>4, <3>1, <1>2, ExpandKeepsInv
  <2> QED
    BY <2>2, <2>3, <2>4
<1> QED
  BY <1>1, <1>2

LEMMA SearchedInRounds ==
  ASSUME NEW q, WellAsked(q)
  PROVE  \E f \in [Nat -> Searches(q)] :
           /\ f[0] = StartSearch(q.profile, q.start, q.goal)
           /\ \A n \in Nat : f[n + 1] = Round(q, f[n])
           /\ SearchedFor(q) = f[8 * Width * Height + 1]
<1> DEFINE S == Searches(q)
           s0 == StartSearch(q.profile, q.start, q.goal)
           F == [s \in S |-> Round(q, s)]
           After[n \in Nat] ==
             IF n = 0 THEN s0
             ELSE LET s == After[n - 1]
                  IN IF s.open = {} \/ Arrived(s, q.goal) THEN s
                     ELSE Iterated(q.nav, q.profile, q.mover, q.goal, s)
<1>1. s0 \in S
  BY StartKeepsInv DEF Searches, SearchInv
<1>2. F \in [S -> S]
  <2>1. \A s \in S : Round(q, s) \in S
    BY RoundKeepsInv DEF Searches, SearchInv
  <2> HIDE DEF S
  <2> QED
    BY <2>1
<1>3. PICK f \in [Nat -> S] : f[0] = s0 /\ \A n \in Nat : f[n + 1] = F[f[n]]
  <2> HIDE DEF S, s0, F
  <2> QED
    BY <1>1, <1>2, SequenceExists
<1>4. \A n \in Nat : f[n] \in S /\ f[n + 1] = Round(q, f[n])
  <2> HIDE DEF S
  <2> QED
    BY <1>3
<1> HIDE DEF S, s0
<1>5. f = [n \in Nat |->
             IF n = 0 THEN s0
             ELSE LET s == f[n - 1]
                  IN IF s.open = {} \/ Arrived(s, q.goal) THEN s
                     ELSE Iterated(q.nav, q.profile, q.mover, q.goal, s)]
  <2>1. \A n \in Nat : n # 0 => f[n] = Round(q, f[n - 1])
    <3>1. \A n \in Nat : n # 0 => n - 1 \in Nat /\ n = (n - 1) + 1
      OBVIOUS
    <3> QED
      BY <3>1, <1>4
  <2>2. \A n \in Nat : f[n] = IF n = 0 THEN s0
             ELSE LET s == f[n - 1]
                  IN IF s.open = {} \/ Arrived(s, q.goal) THEN s
                     ELSE Iterated(q.nav, q.profile, q.mover, q.goal, s)
    BY <2>1, <1>3 DEF Round
  <2> QED
    BY <2>2, <1>3
<1>6. After = [n \in Nat |->
             IF n = 0 THEN s0
             ELSE LET s == After[n - 1]
                  IN IF s.open = {} \/ Arrived(s, q.goal) THEN s
                     ELSE Iterated(q.nav, q.profile, q.mover, q.goal, s)]
  BY <1>5, Zenon
<1>7. SearchedFor(q) = After[8 * Width * Height + 1]
  BY Zenon DEF Searched, SearchedFor, s0
<1> HIDE DEF After
<1>8. After[0] = s0 /\ \A n \in Nat : After[n + 1] = Round(q, After[n])
  <2>1. After[0] = s0
    BY <1>6
  <2>2. ASSUME NEW n \in Nat PROVE After[n + 1] = Round(q, After[n])
    <3>1. n + 1 \in Nat /\ n + 1 # 0 /\ (n + 1) - 1 = n
      OBVIOUS
    <3>2. After[n + 1] = LET s == After[(n + 1) - 1]
                         IN IF s.open = {} \/ Arrived(s, q.goal) THEN s
                            ELSE Iterated(q.nav, q.profile, q.mover, q.goal, s)
      BY <1>6, <3>1, Zenon
    <3> QED
      BY <3>1, <3>2, Zenon DEF Round
  <2> QED
    BY <2>1, <2>2
<1>9. \A n \in Nat : After[n] \in S
  <2> DEFINE T == {n \in Nat : After[n] \in S}
  <2>1. 0 \in T
    BY <1>1, <1>8
  <2>2. ASSUME NEW n \in T PROVE n + 1 \in T
    <3>1. n \in Nat /\ n + 1 \in Nat /\ After[n] \in S
      OBVIOUS
    <3>2. SearchInv(q, After[n])
      BY <3>1 DEF S, Searches
    <3>3. SearchInv(q, After[n + 1])
      BY <3>1, <3>2, <1>8, RoundKeepsInv
    <3> QED
      BY <3>1, <3>3 DEF S, Searches, SearchInv
  <2>3. T = Nat
    <3> HIDE DEF T
    <3> QED
      BY <2>1, <2>2, NatSetInduction DEF T
  <2> QED
    BY <2>3
<1>10. After \in [Nat -> S]
  BY <1>6, <1>9
<1> QED
  BY <1>7, <1>8, <1>10 DEF S, s0

-----------------------------------------------------------------------------
(* There are Width times Height cells.                                     *)
LEMMA CellsAreFinite == IsFiniteSet(Cells) /\ Cardinality(Cells) = Width * Height /\ Width * Height \in Nat
<1> DEFINE X == 0 .. Width - 1
           Y == 0 .. Height - 1
<1>1. IsFiniteSet(X) /\ Cardinality(X) = Width
  <2>1. 0 \in Int /\ Width - 1 \in Int /\ Width > 0 /\ Width \in Nat
    BY MapAssumption
  <2>2. IsFiniteSet(0 .. Width - 1) /\ Cardinality(0 .. Width - 1) = IF 0 > Width - 1 THEN 0 ELSE Width - 1 - 0 + 1
    BY ONLY <2>1, FS_Interval
  <2> QED
    BY <2>1, <2>2
<1>2. IsFiniteSet(Y) /\ Cardinality(Y) = Height
  <2>1. 0 \in Int /\ Height - 1 \in Int /\ Height > 0 /\ Height \in Nat
    BY MapAssumption
  <2>2. IsFiniteSet(0 .. Height - 1) /\ Cardinality(0 .. Height - 1) = IF 0 > Height - 1 THEN 0 ELSE Height - 1 - 0 + 1
    BY ONLY <2>1, FS_Interval
  <2> QED
    BY <2>1, <2>2
<1>3. Cells = X \X Y
  BY DEF Cells
<1> HIDE DEF X, Y
<1>4. IsFiniteSet(X \X Y) /\ Cardinality(X \X Y) = Cardinality(X) * Cardinality(Y)
  BY <1>1, <1>2, FS_Product
<1>5. Width * Height \in Nat
  BY MapAssumption
<1> QED
  BY <1>1, <1>2, <1>3, <1>4, <1>5

LEMMA NowhereIsNoCell == Nowhere \notin Cells
<1>1. Nowhere[1] = -1
  BY DEF Nowhere
<1> QED
  BY <1>1, CellFacts

(* The predecessors of a closed cell, as RouteSteps follows them.          *)
Steps(s, back, n) ==
  [i \in 1 .. n |-> [cell |-> back[n - i], cost |-> s.best[back[n - i]] - s.best[back[n - i + 1]],
                     cumulative |-> s.best[back[n - i]]]]

Meets(back, cell) == {n \in 0 .. Width * Height : back[n] = cell}

LEMMA StepsFollowPredecessors ==
  ASSUME NEW q, WellAsked(q), NEW s, SearchInv(q, s)
  PROVE  \E back \in [Nat -> Cells \cup {Nowhere}] :
           /\ back[0] = q.goal /\ \A n \in Nat : back[n] \in Cells => back[n + 1] = s.from[back[n]]
           /\ RouteSteps(s, q.start, q.goal) =
                IF Meets(back, q.start) = {} THEN << >> ELSE Steps(s, back, Min(Meets(back, q.start)))
<1> DEFINE start == q.start
           goal == q.goal
           C == Cells \cup {Nowhere}
           F == [c \in C |-> IF c \in Cells THEN s.from[c] ELSE Nowhere]
           Back[n \in Nat] == IF n = 0 THEN goal
                              ELSE LET c == Back[n - 1] IN IF c \in Cells THEN s.from[c] ELSE Nowhere
<1>1. F \in [C -> C] /\ goal \in C
  <2>1. goal \in Cells /\ s.from \in [Cells -> Cells \cup {Nowhere}]
    BY DEF WellAsked, SearchInv, SearchState
  <2> QED
    BY <2>1
<1>2. \A c \in C : F[c] = IF c \in Cells THEN s.from[c] ELSE Nowhere
  OBVIOUS
<1>3. PICK f \in [Nat -> C] : f[0] = goal /\ \A n \in Nat : f[n + 1] = F[f[n]]
  <2> HIDE DEF F, C, goal
  <2> QED
    BY <1>1, SequenceExists
<1> HIDE DEF F, C
<1>4. f = [n \in Nat |-> IF n = 0 THEN goal
                         ELSE LET c == f[n - 1] IN IF c \in Cells THEN s.from[c] ELSE Nowhere]
  <2>1. \A n \in Nat : n # 0 => n - 1 \in Nat /\ n = (n - 1) + 1
    OBVIOUS
  <2>2. \A n \in Nat : f[n] = IF n = 0 THEN goal
                              ELSE LET c == f[n - 1] IN IF c \in Cells THEN s.from[c] ELSE Nowhere
    BY <2>1, <1>2, <1>3
  <2> QED
    BY <2>2, <1>3
<1>5. Back = [n \in Nat |-> IF n = 0 THEN goal
                            ELSE LET c == Back[n - 1] IN IF c \in Cells THEN s.from[c] ELSE Nowhere]
  BY <1>4, Zenon
<1>6. RouteSteps(s, start, goal) =
        LET lengths == {n \in 0 .. Width * Height : Back[n] = start}
        IN IF lengths = {} THEN << >>
           ELSE [i \in 1 .. Min(lengths) |->
                   [cell |-> Back[Min(lengths) - i],
                    cost |-> s.best[Back[Min(lengths) - i]] - s.best[Back[Min(lengths) - i + 1]],
                    cumulative |-> s.best[Back[Min(lengths) - i]]]]
  BY Zenon DEF RouteSteps
<1> HIDE DEF Back
<1>7. Back[0] = goal /\ \A n \in Nat : Back[n + 1] = IF Back[n] \in Cells THEN s.from[Back[n]] ELSE Nowhere
  <2>1. \A n \in Nat : n + 1 \in Nat /\ n + 1 # 0 /\ (n + 1) - 1 = n
    OBVIOUS
  <2> QED
    BY <1>5, <2>1
<1>8. Back \in [Nat -> C]
  <2> DEFINE T == {n \in Nat : Back[n] \in C}
  <2>1. 0 \in T
    BY <1>1, <1>7
  <2>2. ASSUME NEW n \in T PROVE n + 1 \in T
    BY <1>7 DEF C, SearchInv, SearchState
  <2>3. T = Nat
    <3> HIDE DEF T
    <3> QED
      BY <2>1, <2>2, NatSetInduction DEF T
  <2> QED
    BY <2>3, <1>5
<1> QED
  BY <1>6, <1>7, <1>8 DEF C, Steps, Meets

(* Back from a closed cell the predecessors are closed, each nearer to the *)
(* start, until the start is met.                                          *)
LEMMA PredecessorsLeadToStart ==
  ASSUME NEW q, WellAsked(q), NEW s, SearchInv(q, s), q.goal \in s.closed,
         NEW back \in [Nat -> Cells \cup {Nowhere}], back[0] = q.goal,
         \A n \in Nat : back[n] \in Cells => back[n + 1] = s.from[back[n]]
  PROVE  \E n \in (0 .. Width * Height) \ {0} :
           /\ back[n] = q.start /\ \A m \in 0 .. n - 1 : back[m] # q.start
           /\ \A m \in 0 .. n - 1 : back[m + 1] \in s.closed /\ Entered(q, s, back[m]) /\ back[m + 1] = s.from[back[m]]
<1> DEFINE Before_(n) == \A m \in 0 .. n - 1 : back[m] # q.start
           T == {n \in Nat : Before_(n) => back[n] \in s.closed}
           N == Width * Height
<1>1. /\ s.closed \subseteq Cells /\ s.best \in [Cells -> 0 .. Unreached] /\ Unreached \in Nat
      /\ N \in Nat /\ IsFiniteSet(Cells) /\ Cardinality(Cells) = N
  BY CellsAreFinite, UnreachedIsNatural DEF SearchInv, SearchState
<1> HIDE DEF N
<1>2. ASSUME NEW c \in s.closed, c # q.start
      PROVE  Entered(q, s, c) /\ s.from[c] \in s.closed /\ s.best[s.from[c]] < s.best[c]
  <2>1. c \in Cells /\ s.best[c] < Unreached
    BY <1>1, <1>2 DEF SearchInv, ClosedBeforeOpen
  <2>2. Entered(q, s, c)
    BY <2>1, <1>1, <1>2 DEF SearchInv, ReachedIsEntered
  <2>3. CostOf(q, c) \in Nat /\ CostOf(q, c) > 0
    BY <2>1, <2>2, CostFacts DEF Entered
  <2>4. s.from[c] \in s.closed /\ s.best[c] = s.best[s.from[c]] + CostOf(q, c)
    BY <2>2 DEF Entered
  <2>5. s.best[s.from[c]] \in Nat
    BY <2>4, <1>1
  <2> QED
    BY <2>2, <2>3, <2>4, <2>5
<1>3. T = Nat
  <2>1. 0 \in T
    OBVIOUS
  <2>2. ASSUME NEW n \in T PROVE n + 1 \in T
    <3>1. SUFFICES ASSUME Before_(n + 1) PROVE back[n + 1] \in s.closed
      OBVIOUS
    <3>2. n \in Nat /\ back[n] # q.start /\ Before_(n)
      <4>1. n \in Nat /\ n \in 0 .. (n + 1) - 1 /\ 0 .. n - 1 \subseteq 0 .. (n + 1) - 1
        OBVIOUS
      <4> QED
        BY <3>1, <4>1
    <3>3. back[n] \in s.closed
      BY <3>2
    <3> HIDE DEF T, Before_
    <3>4. back[n + 1] = s.from[back[n]]
      BY <3>2, <3>3, <1>1
    <3> QED
      BY <3>2, <3>3, <3>4, <1>2
  <2> QED
    <3> HIDE DEF T
    <3> QED
      BY <2>1, <2>2, NatSetInduction DEF T
<1>4. ASSUME NEW n \in Nat, Before_(n) PROVE back[n] \in s.closed
  BY <1>3, <1>4
<1> HIDE DEF T
<1> DEFINE K == {n \in Nat : back[n] = q.start}
<1>5. \E n \in 0 .. N : back[n] = q.start
  <2> SUFFICES ASSUME \A n \in 0 .. N : back[n] # q.start PROVE FALSE
    OBVIOUS
  <2>1. ASSUME NEW n \in 0 .. N
        PROVE  back[n] \in s.closed /\ back[n + 1] \in s.closed /\ s.best[back[n + 1]] < s.best[back[n]]
    <3>1. n \in Nat /\ 0 .. n - 1 \subseteq 0 .. N
      BY <1>1
    <3>2. back[n] \in s.closed
      BY <3>1, <1>4
    <3>3. back[n + 1] = s.from[back[n]]
      BY <3>1, <3>2, <1>1
    <3> QED
      BY <3>2, <3>3, <1>2
  <2>2. ASSUME NEW i \in 0 .. N, NEW j \in 0 .. N, i < j PROVE s.best[back[j]] < s.best[back[i]]
    <3> DEFINE U == {k \in Nat : i + k + 1 <= N => s.best[back[i + k + 1]] < s.best[back[i]]}
    <3>1. 0 \in U
      BY <2>1
    <3>2. ASSUME NEW k \in U PROVE k + 1 \in U
      <4>1. SUFFICES ASSUME i + (k + 1) + 1 <= N PROVE s.best[back[i + (k + 1) + 1]] < s.best[back[i]]
        OBVIOUS
      <4>2. /\ i + k + 1 \in 0 .. N /\ i + (k + 1) + 1 = (i + k + 1) + 1
        BY <4>1, <1>1
      <4>3. s.best[back[i + k + 1]] < s.best[back[i]]
        BY <4>2
      <4>4. /\ s.best[back[(i + k + 1) + 1]] < s.best[back[i + k + 1]]
            /\ back[i] \in s.closed /\ back[i + k + 1] \in s.closed /\ back[(i + k + 1) + 1] \in s.closed
        BY <4>2, <2>1
      <4>5. s.best[back[i]] \in Nat /\ s.best[back[i + k + 1]] \in Nat /\ s.best[back[(i + k + 1) + 1]] \in Nat
        BY <4>4, <1>1
      <4> HIDE DEF U
      <4> QED
        BY <4>2, <4>3, <4>4, <4>5
    <3>3. U = Nat
      <4> HIDE DEF U
      <4> QED
        BY <3>1, <3>2, NatSetInduction DEF U
    <3>4. j - i - 1 \in Nat /\ i + (j - i - 1) + 1 = j /\ j <= N
      BY <2>2, <1>1
    <3>5. j - i - 1 \in U
      <4> HIDE DEF U
      <4> QED
        BY <3>3, <3>4
    <3> QED
      BY <3>4, <3>5
  <2> DEFINE f == [n \in 0 .. N |-> back[n]]
  <2>3. f \in [0 .. N -> Cells]
    BY <2>1, <1>1
  <2>4. IsFiniteSet(0 .. N) /\ Cardinality(0 .. N) = N + 1
    <3>1. 0 \in Int /\ N \in Int
      BY <1>1
    <3>2. IsFiniteSet(0 .. N) /\ Cardinality(0 .. N) = IF 0 > N THEN 0 ELSE N - 0 + 1
      BY ONLY <3>1, FS_Interval
    <3> QED
      BY <3>2, <1>1
  <2>5. \E x, y \in 0 .. N : x # y /\ f[x] = f[y]
    <3> HIDE DEF f
    <3>1. Cardinality(Cells) < Cardinality(0 .. N)
      BY <2>4, <1>1
    <3> QED
      BY ONLY <3>1, <2>3, <2>4, <1>1, FS_PigeonHole
  <2>6. PICK x \in 0 .. N, y \in 0 .. N : x # y /\ back[x] = back[y]
    BY <2>5
  <2>7. s.best[back[x]] \in Nat
    BY <2>1, <1>1
  <2>8. CASE x < y
    BY <2>6, <2>7, <2>8, <2>2
  <2>9. CASE y < x
    BY <2>6, <2>7, <2>9, <2>2
  <2> QED
    BY <2>6, <2>8, <2>9, <1>1
<1>6. PICK n \in K : \A k \in K : n <= k
  <2>1. K # {} /\ K \in SUBSET Nat
    BY <1>5, <1>1
  <2> HIDE DEF K
  <2> QED
    BY <2>1, LeastExists
<1>7. n \in Nat /\ back[n] = q.start /\ Before_(n) /\ n # 0 /\ n <= N
  <2>1. n \in Nat /\ back[n] = q.start
    OBVIOUS
  <2>2. \A m \in 0 .. n - 1 : back[m] # q.start
    BY <1>6
  <2>3. n # 0
    BY <2>1 DEF WellAsked
  <2>4. n <= N
    BY <1>5, <1>6, <1>1
  <2> QED
    BY <2>1, <2>2, <2>3, <2>4
<1>8. ASSUME NEW m \in 0 .. n - 1
      PROVE  back[m + 1] \in s.closed /\ Entered(q, s, back[m]) /\ back[m + 1] = s.from[back[m]]
  <2>1. m \in Nat /\ 0 .. m - 1 \subseteq 0 .. n - 1 /\ back[m] # q.start
    BY <1>7
  <2>2. Before_(m)
    BY <2>1, <1>7
  <2>3. back[m] \in s.closed
    BY <2>1, <2>2, <1>4
  <2> QED
    BY <2>1, <2>3, <1>1, <1>2
<1>9. n \in (0 .. Width * Height) \ {0}
  BY <1>7, <1>1 DEF N
<1> QED
  BY <1>7, <1>8, <1>9

(* A route that may be walked: it starts and ends where it was asked to,   *)
(* each of its steps enters a neighbouring cell that the stack may enter,  *)
(* at the price of that cell, and its sums are right.                      *)
RouteStep == [cell : Cells, cost : Nat, cumulative : Nat]
RouteIsRight(q, r) ==
  /\ r \in [start : {q.start}, destination : {q.goal}, steps : Seq(RouteStep), total : Nat]
  /\ WellFormedRoute(r)
  /\ \A i \in DOMAIN r.steps : /\ r.steps[i].cost = CostOf(q, r.steps[i].cell)
                               /\ CostOf(q, r.steps[i].cell) # Impassable

(* The failure exits of reconstruct_route are never taken by a search that *)
(* arrived.                                                                *)
LEMMA ReconstructedIsRight ==
  ASSUME NEW q, WellAsked(q), NEW s, SearchInv(q, s), q.goal \in s.closed
  PROVE  LET r == Reconstructed(s, q.start, q.goal)
         IN  r # NoRoute /\ RouteIsRight(q, r) /\ r.total = s.best[q.goal]
<1>1. /\ q.start \in Cells /\ q.goal \in Cells /\ s.from \in [Cells -> Cells \cup {Nowhere}]
      /\ s.best \in [Cells -> 0 .. Unreached] /\ Unreached \in Nat /\ s.closed \subseteq Cells
  BY UnreachedIsNatural DEF WellAsked, SearchInv, SearchState
<1>2. PICK back \in [Nat -> Cells \cup {Nowhere}] :
        /\ back[0] = q.goal /\ \A n \in Nat : back[n] \in Cells => back[n + 1] = s.from[back[n]]
        /\ RouteSteps(s, q.start, q.goal) =
             IF Meets(back, q.start) = {} THEN << >> ELSE Steps(s, back, Min(Meets(back, q.start)))
  BY StepsFollowPredecessors
<1>3. PICK n \in (0 .. Width * Height) \ {0} :
        /\ back[n] = q.start /\ \A m \in 0 .. n - 1 : back[m] # q.start
        /\ \A m \in 0 .. n - 1 : back[m + 1] \in s.closed /\ Entered(q, s, back[m]) /\ back[m + 1] = s.from[back[m]]
  <2>1. /\ back \in [Nat -> Cells \cup {Nowhere}] /\ back[0] = q.goal
        /\ \A n \in Nat : back[n] \in Cells => back[n + 1] = s.from[back[n]]
    BY <1>2
  <2> HIDE <1>2
  <2> QED
    BY <2>1, PredecessorsLeadToStart
<1>4. n \in Nat /\ n # 0
  BY CellsAreFinite
<1>5. Meets(back, q.start) # {} /\ Min(Meets(back, q.start)) = n
  <2> DEFINE lengths == Meets(back, q.start)
  <2>1. n \in lengths /\ \A m \in lengths : m \in Nat /\ n <= m
    BY <1>3, <1>4, CellsAreFinite DEF Meets
  <2> HIDE DEF lengths
  <2>2. Min(lengths) = n
    <3>1. \A m \in lengths : (\A k \in lengths : m <= k) => m = n
      BY <2>1, <1>4
    <3> QED
      BY <2>1, <3>1 DEF Min
  <2> QED
    BY <2>1, <2>2 DEF lengths
<1> DEFINE steps == RouteSteps(s, q.start, q.goal)
<1>6. steps = Steps(s, back, n)
  BY <1>2, <1>5
<1>7. steps = [i \in 1 .. n |-> [cell |-> back[n - i], cost |-> s.best[back[n - i]] - s.best[back[n - i + 1]],
                                 cumulative |-> s.best[back[n - i]]]]
  BY <1>6 DEF Steps
<1> HIDE DEF steps
<1>8. ASSUME NEW i \in 1 .. n
      PROVE  /\ steps[i].cell = back[n - i] /\ steps[i].cumulative = s.best[back[n - i]]
             /\ steps[i] \in RouteStep
             /\ steps[i].cost = CostOf(q, back[n - i]) /\ CostOf(q, back[n - i]) # Impassable
             /\ steps[i].cost > 0
             /\ steps[i].cumulative = s.best[back[n - i + 1]] + steps[i].cost
             /\ Adjacent(back[n - i + 1], back[n - i])
             /\ PreviousCell(q.start, steps, i) = back[n - i + 1]
  <2>1. n - i \in 0 .. n - 1 /\ n - i + 1 \in Nat /\ n - i \in Nat
    BY <1>4
  <2>2. back[n - i + 1] \in s.closed /\ Entered(q, s, back[n - i]) /\ back[n - i + 1] = s.from[back[n - i]]
    BY <2>1, <1>3
  <2>3. back[n - i] \in Cells
    <3>1. CASE n - i = 0
      BY <3>1, <1>1, <1>2
    <3>2. CASE n - i # 0
      <4>1. n - i - 1 \in 0 .. n - 1 /\ (n - i - 1) + 1 = n - i
        BY <3>2, <1>4
      <4>2. back[(n - i - 1) + 1] \in s.closed
        BY <4>1, <1>3
      <4> QED
        BY <4>1, <4>2, <1>1
    <3> QED
      BY <3>1, <3>2
  <2> DEFINE c == back[n - i]
             b == back[n - i + 1]
  <2>4. /\ c \in Cells /\ b \in Cells /\ s.best[c] \in Nat /\ s.best[b] \in Nat
        /\ Adjacent(b, c) /\ CostOf(q, c) # Impassable /\ s.best[c] = s.best[b] + CostOf(q, c)
    BY <2>2, <2>3, <1>1 DEF Entered
  <2>5. CostOf(q, c) \in Nat /\ CostOf(q, c) > 0
    BY <2>4, CostFacts
  <2>6. steps[i] = [cell |-> c, cost |-> s.best[c] - s.best[b], cumulative |-> s.best[c]]
    BY <1>7
  <2>7. PreviousCell(q.start, steps, i) = b
    <3>1. CASE i = 1
      <4>1. n - i + 1 = n
        BY <3>1, <1>4
      <4> QED
        BY <3>1, <4>1, <1>3 DEF PreviousCell
    <3>2. CASE i # 1
      <4>1. i - 1 \in 1 .. n /\ n - (i - 1) = n - i + 1
        BY <3>2, <1>4
      <4>2. steps[i - 1].cell = back[n - (i - 1)]
        BY <4>1, <1>7
      <4> QED
        BY <3>2, <4>1, <4>2 DEF PreviousCell
    <3> QED
      BY <3>1, <3>2
  <2> HIDE DEF c, b
  <2>8. steps[i].cost = CostOf(q, c) /\ steps[i] \in RouteStep
    BY <2>4, <2>5, <2>6 DEF RouteStep
  <2> QED
    BY <2>4, <2>5, <2>6, <2>7, <2>8 DEF c, b
<1>9. steps \in Seq(RouteStep) /\ DOMAIN steps = 1 .. n /\ Len(steps) = n /\ steps # << >>
  <2>1. steps \in [1 .. n -> RouteStep]
    BY <1>7, <1>8
  <2>2. steps \in Seq(RouteStep)
    BY <2>1, <1>4
  <2> QED
    BY <2>1, <2>2, <1>4
<1> DEFINE r == Reconstructed(s, q.start, q.goal)
           total == s.best[q.goal]
<1>10. r = [start |-> q.start, destination |-> q.goal, steps |-> steps, total |-> total]
  <2>1. \A i \in DOMAIN steps : Adjacent(PreviousCell(q.start, steps, i), steps[i].cell) /\ steps[i].cost > 0
    BY <1>8, <1>9
  <2> QED
    BY <1>9, <2>1 DEF Reconstructed, steps
<1> HIDE DEF r
<1>11. r.start = q.start /\ r.destination = q.goal /\ r.steps = steps /\ r.total = s.best[q.goal]
  BY <1>10
<1>12. r # NoRoute
  <2>1. NoRoute.start = Nowhere
    BY DEF NoRoute
  <2> QED
    BY <1>1, <1>11, <2>1, NowhereIsNoCell
<1>13. total \in Nat
  BY <1>1
<1>14. steps[Len(steps)].cell = q.goal /\ steps[Len(steps)].cumulative = s.best[q.goal]
  <2>1. n \in 1 .. n /\ n - n = 0
    BY <1>4
  <2> QED
    BY <2>1, <1>2, <1>8, <1>9
<1>15. ASSUME NEW i \in DOMAIN steps
       PROVE  LET before == IF i = 1 THEN 0 ELSE steps[i - 1].cumulative
              IN  /\ Adjacent(PreviousCell(q.start, steps, i), steps[i].cell) /\ steps[i].cost > 0
                  /\ steps[i].cumulative = before + steps[i].cost
  <2>1. i \in 1 .. n
    BY <1>9
  <2>2. CASE i = 1
    <3>1. s.best[back[n - i + 1]] = 0
      <4>1. n - i + 1 = n
        BY <2>2, <1>4
      <4> QED
        BY <4>1, <1>3 DEF SearchInv, ReachedIsEntered
    <3> QED
      BY <2>1, <2>2, <3>1, <1>8
  <2>3. CASE i # 1
    <3>1. i - 1 \in 1 .. n /\ n - (i - 1) = n - i + 1
      BY <2>1, <2>3, <1>4
    <3>2. steps[i - 1].cumulative = s.best[back[n - i + 1]]
      BY <3>1, <1>7
    <3> QED
      BY <2>1, <2>3, <3>2, <1>8
  <2> QED
    BY <2>2, <2>3
<1>16. WellFormedRoute(r)
  BY <1>9, <1>11, <1>14, <1>15 DEF WellFormedRoute
<1>17. \A i \in DOMAIN r.steps : /\ r.steps[i].cost = CostOf(q, r.steps[i].cell)
                                 /\ CostOf(q, r.steps[i].cell) # Impassable
  BY <1>8, <1>9, <1>11
<1>18. r \in [start : {q.start}, destination : {q.goal}, steps : Seq(RouteStep), total : Nat]
  BY <1>9, <1>10, <1>13
<1> QED
  BY <1>11, <1>12, <1>16, <1>17, <1>18 DEF r, RouteIsRight

-----------------------------------------------------------------------------
FoundFor(q) == FindPath(q.nav, q.profile, q.mover, q.start, q.goal)
RefusalFor(q) == Refusal(q.nav, q.profile, q.mover, q.start, q.goal)

(* The answers of find_path, one after the other.                          *)
LEMMA FoundCases ==
  ASSUME NEW q
  PROVE  LET route == IF Arrived(SearchedFor(q), q.goal)
                      THEN Reconstructed(SearchedFor(q), q.start, q.goal) ELSE NoRoute
         IN  /\ RefusalFor(q) = "AlreadyAtDestination" =>
                  FoundFor(q) = [status |-> "AlreadyAtDestination", route |-> EmptyRoute(q.start)]
             /\ RefusalFor(q) = "None" =>
                  FoundFor(q) = [status |-> IF route = NoRoute THEN "NoPath" ELSE "Found", route |-> route]
             /\ RefusalFor(q) \notin {"None", "AlreadyAtDestination"} =>
                  FoundFor(q) = [status |-> RefusalFor(q), route |-> NoRoute]
<1> DEFINE route == IF Arrived(SearchedFor(q), q.goal)
                    THEN Reconstructed(SearchedFor(q), q.start, q.goal) ELSE NoRoute
<1>1. FoundFor(q) = CASE RefusalFor(q) = "AlreadyAtDestination" ->
                           [status |-> RefusalFor(q), route |-> EmptyRoute(q.start)]
                      [] RefusalFor(q) \notin {"None", "AlreadyAtDestination"} ->
                           [status |-> RefusalFor(q), route |-> NoRoute]
                      [] RefusalFor(q) = "None" ->
                           [status |-> IF route = NoRoute THEN "NoPath" ELSE "Found", route |-> route]
  BY Zenon DEF FoundFor, FindPath, RefusalFor, SearchedFor
<1>2. "None" # "AlreadyAtDestination"
  OBVIOUS
<1> HIDE DEF route
<1>3. CASE RefusalFor(q) = "AlreadyAtDestination"
  BY <1>1, <1>2, <1>3, Zenon DEF route
<1>4. CASE RefusalFor(q) = "None"
  BY <1>1, <1>2, <1>4, Zenon DEF route
<1>5. CASE RefusalFor(q) \notin {"None", "AlreadyAtDestination"}
  BY <1>1, <1>5, Zenon
<1> QED
  BY <1>2, <1>3, <1>4, <1>5 DEF route

LEMMA RefusalCases ==
  ASSUME NEW q
  PROVE  /\ RefusalFor(q) \in {"None", "AlreadyAtDestination", "StartOutOfBounds", "DestinationOutOfBounds",
                               "StartBlocked", "DestinationBlocked"}
         /\ RefusalFor(q) \in {"None", "AlreadyAtDestination"} <=>
              /\ q.start \in Cells /\ q.goal \in Cells
              /\ CostOf(q, q.start) # Impassable /\ CostOf(q, q.goal) # Impassable
         /\ RefusalFor(q) = "None" => q.start # q.goal
         /\ RefusalFor(q) = "AlreadyAtDestination" => q.start = q.goal
<1>1. CASE q.start \notin Cells
  <2>1. RefusalFor(q) = "StartOutOfBounds"
    BY <1>1, Zenon DEF RefusalFor, Refusal
  <2> QED
    BY <1>1, <2>1
<1>2. CASE q.start \in Cells /\ q.goal \notin Cells
  <2>1. RefusalFor(q) = "DestinationOutOfBounds"
    BY <1>2, Zenon DEF RefusalFor, Refusal
  <2> QED
    BY <1>2, <2>1
<1>3. CASE q.start \in Cells /\ q.goal \in Cells
  <2>1. RefusalFor(q) = IF CostOf(q, q.start) = Impassable THEN "StartBlocked"
                        ELSE IF CostOf(q, q.goal) = Impassable THEN "DestinationBlocked"
                        ELSE IF q.start = q.goal THEN "AlreadyAtDestination" ELSE "None"
    BY <1>3, Zenon DEF RefusalFor, Refusal, CostOf
  <2> QED
    BY <1>3, <2>1
<1> QED
  BY <1>1, <1>2, <1>3

(* A route that find_path answers with may be walked.                      *)
THEOREM FoundRoutesAreRight ==
  ASSUME NEW q, q.nav.ground \in [Cells -> Ground], q.profile \in Profile,
         FoundFor(q).status \in {"Found", "AlreadyAtDestination"}
  PROVE  /\ q.start \in Cells /\ q.goal \in Cells
         /\ RouteIsRight(q, FoundFor(q).route)
         /\ FoundFor(q).route.steps = << >> <=> q.start = q.goal
<1> DEFINE s == SearchedFor(q)
           route == IF Arrived(s, q.goal) THEN Reconstructed(s, q.start, q.goal) ELSE NoRoute
<1>1. CASE RefusalFor(q) = "AlreadyAtDestination"
  <2>1. FoundFor(q) = [status |-> "AlreadyAtDestination", route |-> EmptyRoute(q.start)]
    BY <1>1, FoundCases
  <2>2. q.start \in Cells /\ q.start = q.goal
    BY <1>1, RefusalCases
  <2>3. FoundFor(q).route = [start |-> q.start, destination |-> q.goal, steps |-> << >>, total |-> 0]
    BY <2>1, <2>2 DEF EmptyRoute
  <2>4. RouteIsRight(q, FoundFor(q).route)
    BY <2>2, <2>3 DEF RouteIsRight, WellFormedRoute
  <2> QED
    BY <2>2, <2>3, <2>4
<1>2. CASE RefusalFor(q) = "None"
  <2>1. WellAsked(q)
    BY <1>2, RefusalCases DEF WellAsked
  <2>2. FoundFor(q) = [status |-> IF route = NoRoute THEN "NoPath" ELSE "Found", route |-> route]
    BY <1>2, FoundCases
  <2>3. route # NoRoute
    BY <2>2
  <2>4. q.goal \in s.closed /\ route = Reconstructed(s, q.start, q.goal) /\ FoundFor(q).route = route
    BY <2>2, <2>3 DEF Arrived
  <2>5. SearchInv(q, s)
    <3>1. PICK f \in [Nat -> Searches(q)] : s = f[8 * Width * Height + 1]
      BY <2>1, SearchedInRounds
    <3>2. 8 * Width * Height + 1 \in Nat
      <4>1. 8 * Width \in Nat /\ Height \in Nat
        BY MapAssumption
      <4>2. \A m, n \in Nat : m * n + 1 \in Nat
        OBVIOUS
      <4> DEFINE a == 8 * Width
      <4> HIDE DEF a
      <4> QED
        BY <4>1, <4>2 DEF a
    <3> QED
      BY <3>1, <3>2 DEF Searches
  <2>6. RouteIsRight(q, Reconstructed(s, q.start, q.goal))
    BY <2>1, <2>4, <2>5, ReconstructedIsRight
  <2>7. RouteIsRight(q, FoundFor(q).route)
    BY <2>4, <2>6
  <2>8. FoundFor(q).route.steps # << >>
    BY <2>1, <2>7 DEF RouteIsRight, WellFormedRoute, WellAsked
  <2> QED
    BY <2>1, <2>7, <2>8 DEF WellAsked
<1>3. CASE RefusalFor(q) \notin {"None", "AlreadyAtDestination"}
  BY <1>3, FoundCases, RefusalCases
<1> QED
  BY <1>1, <1>2, <1>3

-----------------------------------------------------------------------------
(* The cells that walks of a cost of k or less enter: what is cheapest,    *)
(* without estimate, queue or predecessors.                                *)
Walks(q, W) ==
  /\ W \in [0 .. Unreached - 1 -> SUBSET Cells]
  /\ W[0] = {q.start}
  /\ \A k \in 1 .. Unreached - 1, c \in Cells :
       c \in W[k] <=> \/ c \in W[k - 1]
                      \/ CostOf(q, c) \in 1 .. k /\ \E b \in W[k - CostOf(q, c)] : Adjacent(b, c)

(* On every walk something waits that the search looks at before its end,  *)
(* unless the search has already got there as cheaply.                     *)
LEMMA SomethingWaits ==
  ASSUME NEW q, WellAsked(q), NEW s, SearchInv(q, s), q.goal \notin s.closed, NEW W, Walks(q, W)
  PROVE  \A k \in 0 .. Unreached - 1 : \A c \in W[k] :
           s.best[c] <= k \/ \E o \in s.open : o.g + o.h <= k + Ahead(q, c)
<1> DEFINE Waits(k, c) == s.best[c] <= k \/ \E o \in s.open : o.g + o.h <= k + Ahead(q, c)
           T == {n \in Nat : \A k \in 0 .. n : k < Unreached => \A c \in W[k] : Waits(k, c)}
<1>1. /\ Unreached \in Nat /\ Unreached > 0 /\ s.best \in [Cells -> 0 .. Unreached]
      /\ s.open \subseteq OpenEntry /\ s.closed \subseteq Cells
  BY UnreachedIsNatural DEF SearchInv, SearchState
<1>2. \A o \in s.open : o.g \in Nat /\ o.h \in Nat /\ o.cell \in Cells /\ o.h = Ahead(q, o.cell)
  BY <1>1 DEF OpenEntry, SearchInv, OpenIsPriced
<1>3. \A k \in 0 .. Unreached - 1 : W[k] \subseteq Cells
  BY DEF Walks
<1>4. 0 \in T
  <2>1. Waits(0, q.start)
    BY DEF SearchInv, ReachedIsEntered
  <2>2. \A c \in W[0] : Waits(0, c)
    <3> HIDE DEF Waits
    <3> QED
      BY <2>1 DEF Walks
  <2> HIDE DEF Waits
  <2> QED
    BY <2>2
<1>5. ASSUME NEW n \in T PROVE n + 1 \in T
  <2>1. n \in Nat /\ \A k \in 0 .. n : k < Unreached => \A c \in W[k] : Waits(k, c)
    OBVIOUS
  <2>2. ASSUME n + 1 < Unreached, NEW c \in W[n + 1] PROVE Waits(n + 1, c)
    <3>1. n + 1 \in 1 .. Unreached - 1 /\ n \in 0 .. Unreached - 1 /\ c \in Cells
      BY <2>1, <2>2, <1>1, <1>3
    <3>2. s.best[c] \in Nat /\ Ahead(q, c) \in Nat
      BY <3>1, <1>1, AheadFacts
    <3>3. CASE c \in W[n]
      <4>1. Waits(n, c)
        <5>1. n \in 0 .. n /\ n < Unreached
          BY <2>1, <3>1, <1>1
        <5> HIDE DEF Waits
        <5> QED
          BY <2>1, <5>1, <3>3
      <4> QED
        BY <4>1, <1>2, <2>1, <3>2
    <3>4. CASE CostOf(q, c) \in 1 .. n + 1 /\ \E b \in W[(n + 1) - CostOf(q, c)] : Adjacent(b, c)
      <4> DEFINE cost == CostOf(q, c)
                 k == (n + 1) - cost
      <4>1. cost \in Nat /\ cost > 0 /\ k \in 0 .. n /\ k < Unreached /\ k + cost = n + 1
        BY <3>1, <3>4, <2>1, <1>1
      <4>2. cost # Impassable
        BY <4>1 DEF Impassable
      <4> HIDE DEF k
      <4>3. PICK b \in W[k] : Adjacent(b, c)
        BY <3>4 DEF k
      <4>4. b \in Cells /\ Waits(k, b)
        <5>1. k \in 0 .. Unreached - 1
          BY <4>1, <1>1
        <5> HIDE DEF Waits
        <5> QED
          BY <2>1, <4>1, <4>3, <5>1, <1>3
      <4>5. Ahead(q, b) \in Nat /\ Ahead(q, b) <= cost + Ahead(q, c) /\ s.best[b] \in Nat
        BY <4>2, <4>3, <4>4, <3>1, <1>1, AheadFacts
      <4>6. CASE \E o \in s.open : o.g + o.h <= k + Ahead(q, b)
        <5>1. PICK o \in s.open : o.g + o.h <= k + Ahead(q, b)
          BY <4>6
        <5>2. o.g + o.h <= (n + 1) + Ahead(q, c)
          BY <5>1, <4>1, <4>5, <3>2, <2>1, <1>2
        <5> QED
          BY <5>2
      <4>7. CASE s.best[b] <= k /\ b \in s.closed
        <5>1. b # q.goal
          BY <4>7
        <5>2. s.best[c] <= s.best[b] + cost
          BY <5>1, <4>2, <4>3, <4>7, <3>1 DEF SearchInv, ClosedIsExpanded
        <5>3. s.best[c] <= n + 1
          BY <5>2, <4>1, <4>5, <4>7, <3>2, <2>1
        <5> QED
          BY <5>3
      <4>8. CASE s.best[b] <= k /\ b \notin s.closed
        <5>1. s.best[b] < Unreached
          BY <4>1, <4>5, <4>8, <1>1
        <5>2. PICK o \in s.open : o.cell = b /\ o.g = s.best[b]
          BY <5>1, <4>4, <4>8 DEF SearchInv, ReachedIsOpen
        <5>3. o.h = Ahead(q, b)
          BY <5>2, <1>2
        <5>4. o.g + o.h <= (n + 1) + Ahead(q, c)
          BY <5>2, <5>3, <4>1, <4>5, <4>8, <3>2, <2>1
        <5> QED
          BY <5>4
      <4> QED
        BY <4>4, <4>6, <4>7, <4>8
    <3> QED
      BY <3>1, <3>3, <3>4, <2>1 DEF Walks
  <2> HIDE DEF Waits
  <2>3. \A k \in 0 .. n + 1 : k \in 0 .. n \/ k = n + 1
    BY <2>1
  <2> QED
    BY <2>1, <2>2, <2>3
<1>6. T = Nat
  <2> HIDE DEF T
  <2> QED
    BY <1>4, <1>5, NatSetInduction DEF T
<1>7. ASSUME NEW k \in 0 .. Unreached - 1, NEW c \in W[k] PROVE Waits(k, c)
  <2>1. k \in T /\ k \in 0 .. k /\ k < Unreached
    BY <1>1, <1>6
  <2> QED
    BY <2>1
<1> QED
  BY <1>7

(* So no walk to a closed cell, or to the cell that is next, is cheaper.   *)
LEMMA SettledIsCheapest ==
  ASSUME NEW q, WellAsked(q), NEW s, SearchInv(q, s), q.goal \notin s.closed, NEW W, Walks(q, W)
  PROVE  /\ \A c \in s.closed : \A k \in 0 .. s.best[c] - 1 : c \notin W[k]
         /\ s.open # {} /\ ~Stale(s, Top(s.open)) =>
              LET c == Top(s.open).cell IN \A k \in 0 .. s.best[c] - 1 : c \notin W[k]
         /\ s.open = {} => q.goal \notin W[Unreached - 1]
<1>1. /\ Unreached \in Nat /\ Unreached > 0 /\ s.best \in [Cells -> 0 .. Unreached]
      /\ s.open \subseteq OpenEntry /\ s.closed \subseteq Cells
  BY UnreachedIsNatural DEF SearchInv, SearchState
<1>2. \A o \in s.open : o.g + o.h \in Nat
  BY <1>1 DEF OpenEntry
<1>3. ASSUME NEW c \in Cells, s.best[c] < Unreached, \A o \in s.open : s.best[c] + Ahead(q, c) <= o.g + o.h,
             NEW k \in 0 .. s.best[c] - 1
      PROVE  c \notin W[k]
  <2>1. s.best[c] \in Nat /\ Ahead(q, c) \in Nat /\ k \in Nat /\ k < s.best[c] /\ k \in 0 .. Unreached - 1
    BY <1>1, <1>3, AheadFacts
  <2>2. ~(s.best[c] <= k) /\ ~\E o \in s.open : o.g + o.h <= k + Ahead(q, c)
    BY <2>1, <1>2, <1>3
  <2> QED
    BY <2>1, <2>2, SomethingWaits
<1>4. ASSUME NEW c \in s.closed, NEW k \in 0 .. s.best[c] - 1 PROVE c \notin W[k]
  <2>1. c \in Cells /\ s.best[c] < Unreached /\ \A o \in s.open : s.best[c] + Ahead(q, c) <= o.g + o.h
    BY <1>1 DEF SearchInv, ClosedBeforeOpen
  <2> QED
    BY <2>1, <1>3
<1>5. ASSUME s.open # {}, ~Stale(s, Top(s.open)), NEW k \in 0 .. s.best[Top(s.open).cell] - 1
      PROVE  Top(s.open).cell \notin W[k]
  <2> DEFINE e == Top(s.open)
  <2>1. /\ e.cell \in Cells /\ e.g = s.best[e.cell] /\ e.g < Unreached /\ e.h = Ahead(q, e.cell)
        /\ \A o \in s.open : e.g + e.h <= o.g + o.h
    BY <1>5, FreshEntry
  <2> QED
    BY <2>1, <1>3, <1>5
<1>6. ASSUME s.open = {} PROVE q.goal \notin W[Unreached - 1]
  <2>1. q.goal \in Cells /\ s.best[q.goal] \in 0 .. Unreached
    BY <1>1 DEF WellAsked
  <2>2. ~(s.best[q.goal] < Unreached)
    BY <1>6, <2>1 DEF SearchInv, ReachedIsOpen
  <2>3. ~(s.best[q.goal] <= Unreached - 1) /\ Unreached - 1 \in 0 .. Unreached - 1
    BY <2>1, <2>2, <1>1
  <2> QED
    BY <2>3, <1>6, SomethingWaits
<1> QED
  BY <1>4, <1>5, <1>6

(* And some walk costs what the search says.                               *)
LEMMA ReachedByWalk ==
  ASSUME NEW q, WellAsked(q), NEW s, SearchInv(q, s), NEW W, Walks(q, W)
  PROVE  \A c \in Cells : s.best[c] < Unreached => c \in W[s.best[c]]
<1> DEFINE T == {n \in Nat : \A c \in Cells : s.best[c] <= n /\ s.best[c] < Unreached => c \in W[s.best[c]]}
<1>1. /\ Unreached \in Nat /\ Unreached > 0 /\ s.best \in [Cells -> 0 .. Unreached] /\ s.closed \subseteq Cells
      /\ s.best[q.start] = 0 /\ W[0] = {q.start}
  BY UnreachedIsNatural DEF SearchInv, SearchState, ReachedIsEntered, Walks
<1>2. ASSUME NEW c \in Cells \ {q.start}, s.best[c] < Unreached
      PROVE  /\ s.from[c] \in Cells /\ Adjacent(s.from[c], c) /\ CostOf(q, c) \in Nat /\ CostOf(q, c) > 0
             /\ s.best[s.from[c]] \in Nat /\ s.best[c] = s.best[s.from[c]] + CostOf(q, c)
             /\ s.best[s.from[c]] < s.best[c]
  <2>1. Entered(q, s, c)
    BY <1>1, <1>2 DEF SearchInv, ReachedIsEntered
  <2>2. s.from[c] \in Cells /\ s.best[s.from[c]] \in Nat
    BY <2>1, <1>1 DEF Entered
  <2>3. CostOf(q, c) \in Nat /\ CostOf(q, c) > 0
    BY <2>1, CostFacts DEF Entered
  <2> QED
    BY <2>1, <2>2, <2>3 DEF Entered
<1>3. 0 \in T
  <2>1. ASSUME NEW c \in Cells, s.best[c] <= 0, s.best[c] < Unreached PROVE c \in W[s.best[c]]
    <3>1. c = q.start
      BY <1>2, <2>1
    <3> QED
      BY <3>1, <1>1
  <2> QED
    BY <2>1
<1>4. ASSUME NEW n \in T PROVE n + 1 \in T
  <2>1. ASSUME NEW c \in Cells, s.best[c] <= n + 1, s.best[c] < Unreached PROVE c \in W[s.best[c]]
    <3>1. CASE c = q.start
      BY <3>1, <1>1
    <3>2. CASE c # q.start
      <4> DEFINE b == s.from[c]
                 k == s.best[c]
                 cost == CostOf(q, c)
      <4>1. /\ b \in Cells /\ Adjacent(b, c) /\ cost \in Nat /\ cost > 0
            /\ s.best[b] \in Nat /\ k = s.best[b] + cost /\ s.best[b] < k
        BY <1>2, <2>1, <3>2
      <4>2. b \in W[s.best[b]]
        <5>1. s.best[b] <= n /\ s.best[b] < Unreached
          BY <4>1, <2>1, <1>1
        <5> QED
          BY <5>1, <4>1
      <4>3. k \in 1 .. Unreached - 1 /\ cost \in 1 .. k /\ k - cost = s.best[b]
        BY <4>1, <2>1, <1>1
      <4> HIDE DEF b, k, cost
      <4>4. c \in W[k]
        BY <4>1, <4>2, <4>3 DEF Walks, cost
      <4> QED
        BY <4>4 DEF k
    <3> QED
      BY <3>1, <3>2
  <2> QED
    BY <2>1
<1>5. T = Nat
  <2> HIDE DEF T
  <2> QED
    BY <1>3, <1>4, NatSetInduction DEF T
<1>6. ASSUME NEW c \in Cells, s.best[c] < Unreached PROVE c \in W[s.best[c]]
  <2>1. s.best[c] \in T /\ s.best[c] <= s.best[c]
    BY <1>1, <1>5
  <2> QED
    BY <2>1, <1>6
<1> QED
  BY <1>6

-----------------------------------------------------------------------------
(* One expansion takes an entry from the queue and adds eight at most.     *)
LEMMA ExpansionIsSmall ==
  ASSUME NEW q, WellAsked(q), NEW s, SearchInv(q, s), s.open # {}, ~Stale(s, Top(s.open)), IsFiniteSet(s.open)
  PROVE  LET t == Expanded(q.nav, q.profile, q.mover, q.goal, Closed(Popped(s), Top(s.open)), Top(s.open))
         IN  IsFiniteSet(t.open) /\ Cardinality(t.open) <= Cardinality(s.open) + 7
<1> DEFINE e == Top(s.open)
           u == Closed(Popped(s), e)
           t == Expanded(q.nav, q.profile, q.mover, q.goal, u, e)
           better == Improving(q.nav, q.profile, q.mover, u, e)
           To(i) == Shift(e.cell, i)
           Entry(i) == [cell |-> To(i), g |-> e.g + EnterCost(q.nav, q.profile, q.mover, To(i)),
                        h |-> Heuristic(q.profile, To(i), q.goal),
                        seq |-> u.seq + Cardinality({j \in better : j < i})]
           f == [i \in better |-> Entry(i)]
           New == {Entry(i) : i \in better}
           Old == s.open \ {e}
<1>1. e \in s.open /\ e.cell \in Cells
  BY FreshEntry
<1>2. u.open = Old
  BY DEF SearchInv, SearchState, Popped, Closed
<1>3. t.open = u.open \cup New
  <2> DEFINE Reached == {To(i) : i \in better}
             Cost(c) == e.g + EnterCost(q.nav, q.profile, q.mover, c)
  <2>1. t = [best |-> [c \in Cells |-> IF c \in Reached THEN Cost(c) ELSE u.best[c]],
             from |-> [c \in Cells |-> IF c \in Reached THEN e.cell ELSE u.from[c]],
             closed |-> u.closed, open |-> u.open \cup New,
             seq |-> u.seq + Cardinality(better)]
    BY Zenon DEF Expanded
  <2> HIDE DEF t, u, New, Reached, Cost
  <2> QED
    BY <2>1
<1>4. better \subseteq 1 .. 8
  <2>1. DOMAIN Delta = 1 .. 8
    BY <1>1, DirectionFacts
  <2> HIDE DEF u, e
  <2> QED
    BY <2>1 DEF Improving
<1>5. IsFiniteSet(1 .. 8) /\ Cardinality(1 .. 8) = 8
  <2>1. 1 \in Int /\ 8 \in Int
    OBVIOUS
  <2>2. IsFiniteSet(1 .. 8) /\ Cardinality(1 .. 8) = IF 1 > 8 THEN 0 ELSE 8 - 1 + 1
    BY ONLY <2>1, FS_Interval
  <2> QED
    BY <2>2
<1> HIDE DEF better
<1>6. IsFiniteSet(better) /\ Cardinality(better) <= 8 /\ Cardinality(better) \in Nat
  <2>1. better \in SUBSET (1 .. 8)
    BY <1>4
  <2>2. IsFiniteSet(better) /\ Cardinality(better) <= Cardinality(1 .. 8)
    BY ONLY <2>1, <1>5, FS_Subset
  <2>3. Cardinality(better) \in Nat
    BY ONLY <2>2, FS_CardinalityType
  <2> QED
    BY <2>2, <2>3, <1>5
<1> HIDE DEF Entry, To
<1>7. f \in Surjection(better, New)
  BY DEF Surjection
<1> HIDE DEF f, New
<1>8. IsFiniteSet(New) /\ Cardinality(New) <= Cardinality(better)
  BY ONLY <1>6, <1>7, FS_Surjection
<1>9. Cardinality(New) \in Nat
  BY ONLY <1>8, FS_CardinalityType
<1>10. IsFiniteSet(Old) /\ Cardinality(Old) = Cardinality(s.open) - 1 /\ Cardinality(s.open) \in Nat
  <2>1. IsFiniteSet(s.open \ {e}) /\ Cardinality(s.open \ {e}) = IF e \in s.open THEN Cardinality(s.open) - 1 ELSE Cardinality(s.open)
    BY FS_RemoveElement
  <2> HIDE DEF e
  <2>2. Cardinality(s.open) \in Nat
    BY FS_CardinalityType
  <2> QED
    BY <2>1, <2>2, <1>1
<1> HIDE DEF Old, e, u, t
<1>11. /\ IsFiniteSet(Old \cup New)
       /\ Cardinality(Old \cup New) = Cardinality(Old) + Cardinality(New) - Cardinality(Old \cap New)
  BY ONLY <1>8, <1>10, FS_Union
<1>12. Cardinality(Old \cap New) \in Nat
  <2>1. Old \cap New \in SUBSET Old
    OBVIOUS
  <2>2. IsFiniteSet(Old \cap New)
    BY ONLY <2>1, <1>10, FS_Subset
  <2> QED
    BY ONLY <2>2, FS_CardinalityType
<1>13. IsFiniteSet(t.open) /\ t.open = Old \cup New
  BY <1>2, <1>3, <1>11
<1>14. Cardinality(t.open) <= Cardinality(s.open) + 7
  <2> DEFINE a == Cardinality(Old)
             b == Cardinality(New)
             c == Cardinality(Old \cap New)
             d == Cardinality(better)
             n == Cardinality(s.open)
  <2>1. Cardinality(t.open) = a + b - c
    BY <1>11, <1>13
  <2>2. a = n - 1 /\ b <= d /\ d <= 8 /\ a \in Int /\ b \in Nat /\ c \in Nat /\ d \in Nat /\ n \in Nat
    BY <1>6, <1>8, <1>9, <1>10, <1>12
  <2>3. a + b - c <= n + 7
    <3> HIDE DEF a, b, c, d, n
    <3> QED
      BY <2>2
  <2> QED
    BY <2>1, <2>3
<1> QED
  BY <1>13, <1>14 DEF t, u, e

(* Where the loop of find_path is on its way to what it computes: after n  *)
(* rounds, with as much left as the bound on all rounds says.              *)
RoundBound == 8 * Width * Height + 1
RoundsOf(q, f) ==
  /\ f \in [Nat -> Searches(q)]
  /\ f[0] = StartSearch(q.profile, q.start, q.goal)
  /\ \A n \in Nat : f[n + 1] = Round(q, f[n])
  /\ SearchedFor(q) = f[RoundBound]
LeavesRounds(s, n) == n + Cardinality(s.open) + 8 * Cardinality(Cells \ s.closed) <= RoundBound
InRounds(q, s) ==
  /\ IsFiniteSet(s.open)
  /\ \E f, n : RoundsOf(q, f) /\ n \in Nat /\ f[n] = s /\ LeavesRounds(s, n)

LEMMA UnclosedFacts ==
  ASSUME NEW C \in SUBSET Cells
  PROVE  /\ IsFiniteSet(Cells \ C) /\ Cardinality(Cells \ C) \in Nat
         /\ \A c \in Cells \ C : Cardinality(Cells \ (C \cup {c})) = Cardinality(Cells \ C) - 1
<1>1. Cells \ C \in SUBSET Cells
  OBVIOUS
<1>2. IsFiniteSet(Cells \ C)
  BY ONLY <1>1, CellsAreFinite, FS_Subset
<1>3. Cardinality(Cells \ C) \in Nat
  BY ONLY <1>2, FS_CardinalityType
<1>4. ASSUME NEW c \in Cells \ C PROVE Cardinality(Cells \ (C \cup {c})) = Cardinality(Cells \ C) - 1
  <2>1. Cells \ (C \cup {c}) = (Cells \ C) \ {c}
    OBVIOUS
  <2>2. Cardinality((Cells \ C) \ {c}) = IF c \in Cells \ C THEN Cardinality(Cells \ C) - 1 ELSE Cardinality(Cells \ C)
    BY ONLY <1>2, FS_RemoveElement
  <2> QED
    BY <2>1, <2>2
<1> QED
  BY <1>2, <1>3, <1>4

LEMMA RoundBoundFacts == RoundBound \in Nat /\ RoundBound = 8 * Cardinality(Cells) + 1 /\ Cardinality(Cells) \in Nat
<1>1. \A m, n \in Nat : 8 * m * n = 8 * (m * n)
  OBVIOUS
<1>2. Width \in Nat /\ Height \in Nat /\ Cardinality(Cells) = Width * Height /\ Width * Height \in Nat
  BY MapAssumption, CellsAreFinite
<1>3. 8 * Width * Height = 8 * Cardinality(Cells)
  BY <1>1, <1>2
<1> QED
  BY <1>2, <1>3 DEF RoundBound

(* The first search of the loop is on its way.                             *)
LEMMA StartIsInRounds ==
  ASSUME NEW q, WellAsked(q)
  PROVE  InRounds(q, StartSearch(q.profile, q.start, q.goal))
<1> DEFINE s == StartSearch(q.profile, q.start, q.goal)
           e == [cell |-> q.start, g |-> 0, h |-> Heuristic(q.profile, q.start, q.goal), seq |-> 0]
<1>1. s.open = {e} /\ s.closed = {}
  BY DEF StartSearch
<1>2. IsFiniteSet(s.open) /\ Cardinality(s.open) = 1
  <2> HIDE DEF s, e
  <2> QED
    BY <1>1, FS_Singleton
<1> HIDE DEF s
<1>3. Cells \ s.closed = Cells
  BY <1>1
<1>4. LeavesRounds(s, 0)
  BY <1>2, <1>3, RoundBoundFacts DEF LeavesRounds
<1>5. PICK f : RoundsOf(q, f)
  BY SearchedInRounds DEF RoundsOf, RoundBound
<1>6. f[0] = s /\ 0 \in Nat
  BY <1>5 DEF RoundsOf, s
<1> QED
  BY <1>2, <1>4, <1>5, <1>6 DEF InRounds, s

(* A search that a round changes no more is what the rounds come to.       *)
LEMMA RoundsEnd ==
  ASSUME NEW q, WellAsked(q), NEW f, RoundsOf(q, f), NEW n \in 0 .. RoundBound, Round(q, f[n]) = f[n]
  PROVE  SearchedFor(q) = f[n]
<1> DEFINE T == {m \in Nat : f[n + m] = f[n]}
<1>1. 0 \in T
  BY RoundBoundFacts
<1>2. ASSUME NEW m \in T PROVE m + 1 \in T
  <2>1. n + m \in Nat /\ f[n + m] = f[n] /\ n + (m + 1) = (n + m) + 1
    BY RoundBoundFacts
  <2>2. f[(n + m) + 1] = Round(q, f[n + m])
    BY <2>1 DEF RoundsOf
  <2> QED
    BY <2>1, <2>2
<1>3. T = Nat
  <2> HIDE DEF T
  <2> QED
    BY <1>1, <1>2, NatSetInduction DEF T
<1>4. RoundBound - n \in T /\ n + (RoundBound - n) = RoundBound
  BY <1>3, RoundBoundFacts
<1> QED
  BY <1>4 DEF RoundsOf

LEMMA RoundIsInRounds ==
  ASSUME NEW q, WellAsked(q), NEW s, SearchInv(q, s), InRounds(q, s), q.goal \notin s.closed
  PROVE  /\ s.open = {} => SearchedFor(q) = s
         /\ s.open # {} /\ Stale(s, Top(s.open)) => InRounds(q, Popped(s))
         /\ s.open # {} /\ ~Stale(s, Top(s.open)) /\ Top(s.open).cell = q.goal =>
              SearchedFor(q) = Closed(Popped(s), Top(s.open))
         /\ s.open # {} /\ ~Stale(s, Top(s.open)) /\ Top(s.open).cell # q.goal =>
              InRounds(q, Expanded(q.nav, q.profile, q.mover, q.goal, Closed(Popped(s), Top(s.open)), Top(s.open)))
<1> DEFINE e == Top(s.open)
           open == Cardinality(s.open)
           left == Cardinality(Cells \ s.closed)
<1>1. PICK f, n : RoundsOf(q, f) /\ n \in Nat /\ f[n] = s /\ LeavesRounds(s, n)
  BY DEF InRounds
<1>2. IsFiniteSet(s.open) /\ open \in Nat /\ left \in Nat /\ s.closed \in SUBSET Cells
  <2>1. IsFiniteSet(s.open)
    BY DEF InRounds
  <2>2. s.closed \in SUBSET Cells
    BY DEF SearchInv, SearchState
  <2> QED
    BY <2>1, <2>2, FS_CardinalityType, UnclosedFacts
<1>3. n + open + 8 * left <= RoundBound /\ RoundBound \in Nat
  BY <1>1, RoundBoundFacts DEF LeavesRounds
<1> HIDE DEF open, left
<1>4. n \in 0 .. RoundBound
  BY <1>1, <1>2, <1>3
<1>5. f[n + 1] = Round(q, s) /\ n + 1 \in Nat
  BY <1>1 DEF RoundsOf
<1>6. ASSUME s.open = {} PROVE SearchedFor(q) = s
  <2>1. Round(q, s) = s
    BY <1>6 DEF Round
  <2> QED
    BY <2>1, <1>1, <1>4, RoundsEnd
<1>7. ASSUME s.open # {}
      PROVE  /\ Round(q, s) = Iterated(q.nav, q.profile, q.mover, q.goal, s)
             /\ open > 0 /\ e \in s.open
             /\ IsFiniteSet(s.open \ {e}) /\ Cardinality(s.open \ {e}) = open - 1
  <2>1. Round(q, s) = Iterated(q.nav, q.profile, q.mover, q.goal, s)
    BY <1>7 DEF Round, Arrived
  <2>2. e \in s.open
    BY <1>7, TopOfOpen DEF SearchInv, SearchState
  <2> HIDE DEF e
  <2>3. open > 0
    BY <1>2, <1>7, FS_EmptySet DEF open
  <2>4. IsFiniteSet(s.open \ {e}) /\ Cardinality(s.open \ {e}) = IF e \in s.open THEN Cardinality(s.open) - 1 ELSE Cardinality(s.open)
    BY ONLY <1>2, FS_RemoveElement
  <2> QED
    BY <2>1, <2>2, <2>3, <2>4 DEF e, open
<1>8. ASSUME s.open # {}, Stale(s, e) PROVE InRounds(q, Popped(s))
  <2> DEFINE t == Popped(s)
  <2>1. Round(q, s) = t
    BY <1>7, <1>8, Zenon DEF Iterated
  <2>2. t.open = s.open \ {e} /\ t.closed = s.closed
    BY DEF SearchInv, SearchState, Popped
  <2> HIDE DEF t, e
  <2>3. LeavesRounds(t, n + 1)
    BY <1>1, <1>2, <1>3, <1>7, <1>8, <2>2 DEF LeavesRounds, left
  <2>4. IsFiniteSet(t.open)
    BY <1>7, <1>8, <2>2
  <2> QED
    BY <1>1, <1>5, <2>1, <2>3, <2>4 DEF InRounds, t
<1>9. ASSUME s.open # {}, ~Stale(s, e), e.cell = q.goal PROVE SearchedFor(q) = Closed(Popped(s), e)
  <2> DEFINE t == Closed(Popped(s), e)
  <2>1. Round(q, s) = t
    BY <1>7, <1>9, Zenon DEF Iterated
  <2>2. t.closed = s.closed \cup {q.goal}
    BY <1>9 DEF SearchInv, SearchState, Popped, Closed
  <2> HIDE DEF t, e
  <2>3. Round(q, t) = t
    BY <2>2 DEF Round, Arrived
  <2>4. n + 1 \in 0 .. RoundBound
    BY <1>1, <1>2, <1>3, <1>7, <1>9
  <2>5. f[n + 1] = t
    BY <1>5, <2>1
  <2>6. SearchedFor(q) = f[n + 1]
    BY <1>1, <2>3, <2>4, <2>5, RoundsEnd
  <2> QED
    BY <2>5, <2>6 DEF t
<1>10. ASSUME s.open # {}, ~Stale(s, e), e.cell # q.goal
       PROVE  InRounds(q, Expanded(q.nav, q.profile, q.mover, q.goal, Closed(Popped(s), e), e))
  <2> DEFINE t == Expanded(q.nav, q.profile, q.mover, q.goal, Closed(Popped(s), e), e)
  <2>1. Round(q, s) = t
    BY <1>7, <1>10, Zenon DEF Iterated
  <2>2. t.closed = s.closed \cup {e.cell}
    BY <1>10, ExpandedFacts
  <2>3. e.cell \in Cells \ s.closed
    BY <1>10, FreshEntry
  <2>4. IsFiniteSet(t.open) /\ Cardinality(t.open) <= open + 7
    BY <1>2, <1>10, ExpansionIsSmall DEF open
  <2> HIDE DEF t, e
  <2>5. Cardinality(Cells \ t.closed) = left - 1
    BY <1>2, <2>2, <2>3, UnclosedFacts DEF left
  <2>6. Cardinality(t.open) \in Nat
    BY <2>4, FS_CardinalityType
  <2> DEFINE opened == Cardinality(t.open)
  <2>7. (n + 1) + opened + 8 * (left - 1) <= RoundBound
    <3>1. opened \in Nat /\ opened <= open + 7
      BY <2>4, <2>6
    <3> HIDE DEF opened
    <3> QED
      BY <3>1, <1>1, <1>2, <1>3
  <2>8. LeavesRounds(t, n + 1)
    BY <2>5, <2>7 DEF LeavesRounds
  <2> QED
    BY <1>1, <1>5, <2>1, <2>4, <2>8 DEF InRounds, t
<1> QED
  BY <1>6, <1>8, <1>9, <1>10
=============================================================================
