--------------------------- MODULE AdventureRules ---------------------------
(***************************************************************************)
(* The rules of walking on the adventure map, src/src/d2adventure_rules:   *)
(* what a cell costs to enter, which facts the navigation map keeps, and   *)
(* the weighted A* search with its route reconstruction and the affordable *)
(* prefix of a route.  Everything here is a function of its arguments; the *)
(* modules Pathfinder and GameSession are the state machines that use it.  *)
(*                                                                         *)
(* A navigation map nav has the ground of every cell, the set of cells     *)
(* with a road, the set covered by blocking objects and the stack on every *)
(* cell.  A route keeps its cells, costs and totals; the (dx, dy) the code *)
(* stores beside each cell is the difference of two cells and is computed. *)
(***************************************************************************)
EXTENDS Integers, Sequences, FiniteSetsExt, TLC

CONSTANTS
  Width, Height,  (* the dimensions of the map, in cells                    *)
  Stack           (* the identities of the stacks of the world              *)

ASSUME MapAssumption == Width \in Nat \ {0} /\ Height \in Nat \ {0}

Cells == {<<x, y>> : x \in 0 .. Width - 1, y \in 0 .. Height - 1}
Nobody == "nobody"
Nowhere == <<-1, -1>>
Ground == {"Plain", "Forest", "Water", "Unknown"}
Profile == {"Walking", "Flying", "Swimming"}

(***************************************************************************)
(* AdventureMovementPolicy: the cost of entering a cell, Impassable when   *)
(* the cell cannot be entered.                                             *)
(***************************************************************************)
Impassable == 0

GroundCost(profile, ground, road) ==
  CASE ground = "Unknown" -> Impassable
    [] ground # "Unknown" /\ profile = "Flying" -> 2
    [] ground # "Unknown" /\ profile = "Swimming" -> IF ground = "Water" THEN 2 ELSE Impassable
    [] ground # "Unknown" /\ profile = "Walking" ->
         IF road THEN 1
         ELSE IF ground = "Plain" THEN 3 ELSE IF ground = "Forest" THEN 4 ELSE 6

(* Mutant: only objects obstruct.                                          *)
ObstructedByObjects(nav, mover, cell) == cell \in nav.blocking

(* The moving stack ignores its own occupancy, and nobody else's.          *)
Obstructed(nav, mover, cell) ==
  cell \in nav.blocking \/ nav.occupant[cell] \notin {Nobody, mover}

EnterCost(nav, profile, mover, cell) ==
  IF Obstructed(nav, mover, cell) THEN Impassable
  ELSE GroundCost(profile, nav.ground[cell], cell \in nav.road)

(***************************************************************************)
(* Weighted A*.  The search record holds best_g, predecessor, closed, the  *)
(* open queue with its insertion sequence.  Unreached is the code's        *)
(* int64 maximum: above every cost a route of this map can have.           *)
(***************************************************************************)
Unreached == 6 * Width * Height + 1

Delta == << <<0, -1>>, <<1, -1>>, <<1, 0>>, <<1, 1>>, <<0, 1>>, <<-1, 1>>, <<-1, 0>>, <<-1, -1>> >>
Shift(cell, i) == <<cell[1] + Delta[i][1], cell[2] + Delta[i][2]>>
Abs(n) == IF n < 0 THEN -n ELSE n
Chebyshev(a, b) == LET dx == Abs(a[1] - b[1])  dy == Abs(a[2] - b[2])
                   IN IF dx < dy THEN dy ELSE dx

(* Mutant: the cheapest step off the road.                                 *)
MinimumStepCostOffRoad(profile) ==
  Min({GroundCost(profile, g, FALSE) : g \in {"Plain", "Forest", "Water"}} \ {Impassable})

(* The cheapest step the profile can ever take, over the grounds the       *)
(* policy supports, with a road and without.                               *)
MinimumStepCost(profile) ==
  Min({GroundCost(profile, g, r) : g \in {"Plain", "Forest", "Water"}, r \in BOOLEAN}
      \ {Impassable})

Heuristic(profile, cell, goal) == Chebyshev(cell, goal) * MinimumStepCost(profile)

(* OpenEntryCompare: lower f, then lower h, then the earlier insertion.    *)
Before(a, b) ==
  \/ a.g + a.h < b.g + b.h
  \/ /\ a.g + a.h = b.g + b.h
     /\ \/ a.h < b.h
        \/ a.h = b.h /\ a.seq < b.seq
Top(open) == CHOOSE e \in open : \A o \in open \ {e} : Before(e, o)

StartSearch(profile, start, goal) ==
  [best |-> [c \in Cells |-> IF c = start THEN 0 ELSE Unreached],
   from |-> [c \in Cells |-> Nowhere],
   closed |-> {},
   open |-> {[cell |-> start, g |-> 0, h |-> Heuristic(profile, start, goal), seq |-> 0]},
   seq |-> 1]

Popped(s) == [s EXCEPT !.open = @ \ {Top(s.open)}]
Stale(s, e) == e.g # s.best[e.cell] \/ e.cell \in s.closed
Closed(s, e) == [s EXCEPT !.closed = @ \cup {e.cell}]

(* The directions whose neighbour the current entry reaches more cheaply.  *)
Improving(nav, profile, mover, s, e) ==
  {i \in DOMAIN Delta :
     LET cell == Shift(e.cell, i)
     IN /\ cell \in Cells
        /\ EnterCost(nav, profile, mover, cell) # Impassable
        /\ e.g + EnterCost(nav, profile, mover, cell) < s.best[cell]}

Expanded(nav, profile, mover, goal, s, e) ==
  LET better == Improving(nav, profile, mover, s, e)
      Reached == {Shift(e.cell, i) : i \in better}
      Cost(cell) == e.g + EnterCost(nav, profile, mover, cell)
      Entry(i) == LET cell == Shift(e.cell, i)
                  IN [cell |-> cell, g |-> Cost(cell), h |-> Heuristic(profile, cell, goal),
                      seq |-> s.seq + Cardinality({j \in better : j < i})]
  IN [best |-> [c \in Cells |-> IF c \in Reached THEN Cost(c) ELSE s.best[c]],
      from |-> [c \in Cells |-> IF c \in Reached THEN e.cell ELSE s.from[c]],
      closed |-> s.closed,
      open |-> s.open \cup {Entry(i) : i \in better},
      seq |-> s.seq + Cardinality(better)]

(***************************************************************************)
(* reconstruct_route: follow the predecessors from the goal, then turn the *)
(* chain round and price it; NoRoute where the code gives nullopt.         *)
(***************************************************************************)
NoRoute == [start |-> Nowhere, destination |-> Nowhere, steps |-> << >>, total |-> -1]
EmptyRoute(at) == [start |-> at, destination |-> at, steps |-> << >>, total |-> 0]

Adjacent(a, b) == a # b /\ Chebyshev(a, b) = 1

RouteSteps(s, start, goal) ==
  LET Back[n \in Nat] == IF n = 0 THEN goal
                         ELSE LET c == Back[n - 1] IN IF c \in Cells THEN s.from[c] ELSE Nowhere
      lengths == {n \in 0 .. Width * Height : Back[n] = start}
      n == Min(lengths)
  IN IF lengths = {} THEN << >>
     ELSE [i \in 1 .. n |-> [cell |-> Back[n - i],
                             cost |-> s.best[Back[n - i]] - s.best[Back[n - i + 1]],
                             cumulative |-> s.best[Back[n - i]]]]

PreviousCell(start, steps, i) == IF i = 1 THEN start ELSE steps[i - 1].cell

Reconstructed(s, start, goal) ==
  LET steps == RouteSteps(s, start, goal)
      sound == /\ steps # << >>
               /\ \A i \in DOMAIN steps : /\ Adjacent(PreviousCell(start, steps, i), steps[i].cell)
                                          /\ steps[i].cost > 0
  IN IF sound
     THEN [start |-> start, destination |-> goal, steps |-> steps, total |-> s.best[goal]]
     ELSE NoRoute

(***************************************************************************)
(* find_path: the refusals before the search, and the search run to its    *)
(* end.  Every iteration pops one entry, and at most eight are pushed for  *)
(* each closed cell.  (EmptyNavigationMap cannot be had from a map that    *)
(* the builder accepts, whose dimensions are positive.)                    *)
(***************************************************************************)
Refusal(nav, profile, mover, start, goal) ==
  CASE start \notin Cells -> "StartOutOfBounds"
    [] start \in Cells /\ goal \notin Cells -> "DestinationOutOfBounds"
    [] start \in Cells /\ goal \in Cells ->
         IF EnterCost(nav, profile, mover, start) = Impassable THEN "StartBlocked"
         ELSE IF EnterCost(nav, profile, mover, goal) = Impassable THEN "DestinationBlocked"
         ELSE IF start = goal THEN "AlreadyAtDestination" ELSE "None"

Arrived(s, goal) == goal \in s.closed
Iterated(nav, profile, mover, goal, s) ==
  LET e == Top(s.open)
  IN IF Stale(s, e) THEN Popped(s)
     ELSE IF e.cell = goal THEN Closed(Popped(s), e)
     ELSE Expanded(nav, profile, mover, goal, Closed(Popped(s), e), e)

Searched(nav, profile, mover, start, goal) ==
  LET After[n \in Nat] ==
        IF n = 0 THEN StartSearch(profile, start, goal)
        ELSE LET s == After[n - 1]
             IN IF s.open = {} \/ Arrived(s, goal) THEN s
                ELSE Iterated(nav, profile, mover, goal, s)
  IN After[8 * Width * Height + 1]

FindPath(nav, profile, mover, start, goal) ==
  LET refusal == Refusal(nav, profile, mover, start, goal)
      s == Searched(nav, profile, mover, start, goal)
      route == IF Arrived(s, goal) THEN Reconstructed(s, start, goal) ELSE NoRoute
  IN CASE refusal = "AlreadyAtDestination" -> [status |-> refusal, route |-> EmptyRoute(start)]
       [] refusal \notin {"None", "AlreadyAtDestination"} -> [status |-> refusal, route |-> NoRoute]
       [] refusal = "None" ->
            [status |-> IF route = NoRoute THEN "NoPath" ELSE "Found", route |-> route]

(***************************************************************************)
(* Routes: the checks the prefix and the preview make on a route, and the  *)
(* prefix of a number of steps.                                            *)
(***************************************************************************)
WellFormedRoute(r) ==
  /\ \A i \in DOMAIN r.steps :
       LET before == IF i = 1 THEN 0 ELSE r.steps[i - 1].cumulative
       IN /\ Adjacent(PreviousCell(r.start, r.steps, i), r.steps[i].cell)
          /\ r.steps[i].cost > 0
          /\ r.steps[i].cumulative = before + r.steps[i].cost
  /\ r.steps = << >> => r.destination = r.start /\ r.total = 0
  /\ r.steps # << >> => LET last == r.steps[Len(r.steps)]
                        IN r.destination = last.cell /\ r.total = last.cumulative

(* Mutant: the prefix of a route still leads to the route's destination.   *)
TruncatedRoute(r, n) ==
  [start |-> r.start, destination |-> r.destination, steps |-> [i \in 1 .. n |-> r.steps[i]],
   total |-> IF n = 0 THEN 0 ELSE r.steps[n].cumulative]

RoutePrefix(r, n) ==
  [start |-> r.start,
   destination |-> IF n = 0 THEN r.start ELSE r.steps[n].cell,
   steps |-> [i \in 1 .. n |-> r.steps[i]],
   total |-> IF n = 0 THEN 0 ELSE r.steps[n].cumulative]
=============================================================================
