---------------------------- MODULE SessionProofs ----------------------------
(***************************************************************************)
(* Proofs about GameSession and the screen that drives it, for every map,  *)
(* every set of stacks and every world: a plan never goes stale, a         *)
(* movement is never interrupted and ends where it promised, whatever      *)
(* commands are given the world only changes as module Journey allows, and *)
(* the film of AdventureScreen shows what the session does. And about the  *)
(* screens of GameProgram that the session is shown on.                    *)
(***************************************************************************)
EXTENDS AdventureScreen, GameProgram, RouteProofs

(* The price of a cell for a stack, from the world alone: what            *)
(* EnterCost finds in the navigation map while that can be built.          *)
Blocked(s, c) == c \in Terrain.blocking \/ \E t \in OnMap \ {s} : stacks[t].position = c
PriceFor(s, c) ==
  IF Blocked(s, c) THEN Impassable
  ELSE GroundCost(Leader[s], Terrain.ground[c], c \in Terrain.road)

(* What Plan asks find_path.                                               *)
Query(s, goal) ==
  [nav |-> NavigationMap, profile |-> Leader[s], mover |-> s, start |-> stacks[s].position, goal |-> goal]

MayTravel(s) == s \in OnMap /\ Leader[s] \in Profile /\ Navigable

(* A route of a stack: over cells it may enter now, at their prices.       *)
Travels(s, r) ==
  /\ r \in [start : Cells, destination : Cells, steps : Seq(RouteStep), total : Nat]
  /\ WellFormedRoute(r)
  /\ \A i \in DOMAIN r.steps : /\ r.steps[i].cost = PriceFor(s, r.steps[i].cell)
                               /\ r.steps[i].cost # Impassable

WorldTypeOK ==
  /\ stacks \in [Stack -> [position : Int \X Int, move : Int]] /\ baseline \in [Stack -> Nat]
  /\ mode \in Mode /\ selected \in Stack \cup {NoStack}

(* Each mode has its part of the state, and no other.                      *)
ModeIsRight ==
  /\ mode = "RoutePlanned" <=> planned # None
  /\ mode = "Moving" <=> execution # None

(* A plan is what would be planned now.                                    *)
PlanIsFresh ==
  planned # None =>
    /\ MayTravel(selected)
    /\ LET found == RouteTo(selected, planned.route.destination)
       IN  /\ found.status \in {"Found", "AlreadyAtDestination"}
           /\ planned = PlannedMovement(selected, Leader[selected], found.route)

(* A movement has got as far as its progress says, over a route that still *)
(* stands and whose rest the points of the stack pay for.                  *)
MovementIsOnCourse ==
  execution # None =>
    LET r == execution.route
        n == execution.next
    IN  /\ execution = [stack |-> selected, profile |-> Leader[selected], route |-> r,
                        requested |-> execution.requested, limited |-> execution.limited,
                        next |-> n, spent |-> execution.spent]
        /\ MayTravel(selected) /\ Travels(selected, r)
        /\ execution.requested \in Cells /\ execution.limited \in BOOLEAN
        /\ ~execution.limited => r.destination = execution.requested
        /\ n \in DOMAIN r.steps
        /\ stacks[selected].position = PreviousCell(r.start, r.steps, n)
        /\ execution.spent = IF n = 1 THEN 0 ELSE r.steps[n - 1].cumulative
        /\ \A i \in DOMAIN r.steps : r.steps[i].cumulative <= stacks[selected].move + execution.spent

SessionInv ==
  /\ WorldTypeOK /\ ModeIsRight /\ PlanIsFresh /\ MovementIsOnCourse
  /\ MovementIsNotInterrupted /\ PlansDoNotGoStale

-----------------------------------------------------------------------------
LEMMA NoneIsNoStack ==
  /\ NoStack \notin Stack /\ None.stack = NoStack /\ OnMap \subseteq Stack /\ OnMap \in SUBSET Stack
  /\ \A p : p.stack \in Stack => p # None
BY SessionAssumption DEF NoStack, None, OnMap

(* The navigation map says what the world says.                            *)
LEMMA PriceIsOfWorld ==
  ASSUME Navigable, NEW s \in Stack, NEW c \in Cells
  PROVE  EnterCost(NavigationMap, Leader[s], s, c) = PriceFor(s, c)
<1> DEFINE At == {t \in OnMap : stacks[t].position = c}
           occupant == NavigationMap.occupant[c]
<1>1. occupant = IF \E t \in OnMap : stacks[t].position = c
                 THEN CHOOSE t \in OnMap : stacks[t].position = c ELSE Nobody
  BY DEF NavigationMap
<1>2. \A t, u \in OnMap : stacks[t].position = c /\ stacks[u].position = c => t = u
  BY DEF Navigable
<1>3. Obstructed(NavigationMap, s, c) <=> Blocked(s, c)
  <2>1. NavigationMap.blocking = Terrain.blocking
    BY DEF NavigationMap
  <2>2. CASE \E t \in OnMap : stacks[t].position = c
    <3>1. occupant \in OnMap /\ stacks[occupant].position = c
      BY <1>1, <2>2
    <3>2. occupant # Nobody
      BY <3>1, NoneIsNoStack, WorldAssumption
    <3> HIDE DEF occupant
    <3>3. occupant # s <=> \E t \in OnMap \ {s} : stacks[t].position = c
      BY <3>1, <1>2
    <3> QED
      BY <2>1, <3>2, <3>3 DEF Obstructed, Blocked, occupant
  <2>3. CASE ~\E t \in OnMap : stacks[t].position = c
    <3>1. occupant = Nobody
      BY <1>1, <2>3
    <3> QED
      BY <2>1, <2>3, <3>1 DEF Obstructed, Blocked
  <2> QED
    BY <2>2, <2>3
<1>4. NavigationMap.ground = Terrain.ground /\ NavigationMap.road = Terrain.road
  BY DEF NavigationMap
<1> QED
  BY <1>3, <1>4 DEF EnterCost, PriceFor

(* A route that is found for a stack is one it may travel.                 *)
LEMMA FoundRoutesTravel ==
  ASSUME NEW s, MayTravel(s), NEW goal, RouteTo(s, goal).status \in {"Found", "AlreadyAtDestination"}
  PROVE  LET r == RouteTo(s, goal).route
         IN  /\ goal \in Cells /\ Travels(s, r)
             /\ r.start = stacks[s].position /\ r.destination = goal
<1> DEFINE q == Query(s, goal)
           r == RouteTo(s, goal).route
<1>1. RouteTo(s, goal) = FoundFor(q)
  BY DEF RouteTo, FoundFor, Query
<1>2. /\ q.nav = NavigationMap /\ q.profile = Leader[s] /\ q.mover = s
      /\ q.start = stacks[s].position /\ q.goal = goal
  BY DEF Query
<1>3. q.nav.ground \in [Cells -> Ground] /\ q.profile \in Profile /\ s \in Stack /\ Navigable
  BY <1>2, WorldAssumption, NoneIsNoStack DEF NavigationMap, MayTravel
<1> HIDE DEF q
<1>4. q.start \in Cells /\ q.goal \in Cells /\ RouteIsRight(q, r)
  BY <1>1, <1>3, FoundRoutesAreRight
<1> HIDE DEF r
<1>5. \A c \in Cells : CostOf(q, c) = PriceFor(s, c)
  BY <1>2, <1>3, PriceIsOfWorld DEF CostOf
<1>6. r \in [start : {q.start}, destination : {q.goal}, steps : Seq(RouteStep), total : Nat]
  BY <1>4 DEF RouteIsRight
<1>7. \A i \in DOMAIN r.steps : r.steps[i] \in RouteStep
  BY <1>6
<1>8. \A i \in DOMAIN r.steps : /\ r.steps[i].cost = PriceFor(s, r.steps[i].cell)
                                /\ r.steps[i].cost # Impassable
  BY <1>4, <1>5, <1>7 DEF RouteIsRight, RouteStep
<1>9. r \in [start : Cells, destination : Cells, steps : Seq(RouteStep), total : Nat]
  BY <1>4, <1>6
<1> QED
  BY <1>2, <1>4, <1>6, <1>8, <1>9 DEF Travels, RouteIsRight, r

(* The steps of a route one may travel, one by one.                        *)
LEMMA TravelFacts ==
  ASSUME NEW s, NEW r, Travels(s, r)
  PROVE  /\ Len(r.steps) \in Nat /\ DOMAIN r.steps = 1 .. Len(r.steps)
         /\ r.start \in Cells /\ r.destination \in Cells /\ r.total \in Nat
         /\ r.steps \in Seq(RouteStep)
         /\ r = [start |-> r.start, destination |-> r.destination, steps |-> r.steps, total |-> r.total]
         /\ r.steps = << >> <=> Len(r.steps) = 0
         /\ \A i \in DOMAIN r.steps :
              /\ r.steps[i] \in RouteStep
              /\ r.steps[i].cell \in Cells /\ r.steps[i].cost \in Nat /\ r.steps[i].cumulative \in Nat
              /\ r.steps[i].cost > 0
              /\ Adjacent(PreviousCell(r.start, r.steps, i), r.steps[i].cell)
              /\ r.steps[i].cumulative = (IF i = 1 THEN 0 ELSE r.steps[i - 1].cumulative) + r.steps[i].cost
<1>1. r \in [start : Cells, destination : Cells, steps : Seq(RouteStep), total : Nat]
  BY DEF Travels
<1>2. r.steps \in Seq(RouteStep)
  BY <1>1
<1>3. \A i \in DOMAIN r.steps : r.steps[i] \in RouteStep
  BY <1>2
<1>4. Len(r.steps) \in Nat /\ DOMAIN r.steps = 1 .. Len(r.steps) /\ (r.steps = << >> <=> Len(r.steps) = 0)
  BY <1>2
<1> QED
  BY <1>1, <1>2, <1>3, <1>4 DEF Travels, WellFormedRoute, RouteStep

(* The first step the points do not reach.                                 *)
LEMMA UnaffordableFacts ==
  ASSUME NEW s, NEW r, Travels(s, r), NEW points \in Int
  PROVE  LET first == FirstUnaffordable(r, points)
         IN  /\ first \in 0 .. Len(r.steps)
             /\ first = 0 <=> \A i \in DOMAIN r.steps : r.steps[i].cumulative <= points
             /\ first # 0 => \A i \in 1 .. first - 1 : r.steps[i].cumulative <= points
<1> DEFINE beyond == {i \in DOMAIN r.steps : r.steps[i].cumulative > points}
<1>1. /\ DOMAIN r.steps = 1 .. Len(r.steps) /\ Len(r.steps) \in Nat
      /\ \A i \in DOMAIN r.steps : r.steps[i].cumulative \in Nat
  BY TravelFacts
<1>2. FirstUnaffordable(r, points) = IF beyond = {} THEN 0 ELSE Min(beyond)
  BY DEF FirstUnaffordable
<1>3. beyond \in SUBSET Nat /\ beyond \subseteq 1 .. Len(r.steps)
  BY <1>1
<1>4. \A i \in DOMAIN r.steps : i \in beyond <=> ~(r.steps[i].cumulative <= points)
  BY <1>1
<1> HIDE DEF beyond
<1>5. CASE beyond = {}
  BY <1>1, <1>2, <1>4, <1>5
<1>6. CASE beyond # {}
  <2>1. Min(beyond) \in beyond /\ \A i \in beyond : Min(beyond) <= i
    <3>1. \E k \in beyond : \A i \in beyond : k <= i
      BY <1>3, <1>6, LeastExists
    <3> QED
      BY <3>1 DEF Min
  <2> DEFINE first == Min(beyond)
  <2> HIDE DEF first
  <2>2. first \in 1 .. Len(r.steps) /\ \A i \in beyond : first <= i
    BY <2>1, <1>3 DEF first
  <2>3. \A i \in 1 .. first - 1 : i \in DOMAIN r.steps /\ i \notin beyond
    BY <2>2, <1>1, <1>3
  <2> QED
    BY <2>1, <2>2, <2>3, <1>1, <1>2, <1>4, <1>6 DEF first
<1> QED
  BY <1>5, <1>6

(* The part of a route that is paid for is a route.                        *)
LEMMA PrefixTravels ==
  ASSUME NEW s, NEW r, Travels(s, r), NEW n \in 1 .. Len(r.steps)
  PROVE  LET p == RoutePrefix(r, n)
         IN  /\ Travels(s, p) /\ p.start = r.start /\ Len(p.steps) = n
             /\ \A i \in 1 .. n : p.steps[i] = r.steps[i]
<1> DEFINE p == RoutePrefix(r, n)
<1>1. p = [start |-> r.start, destination |-> r.steps[n].cell, steps |-> [i \in 1 .. n |-> r.steps[i]],
           total |-> r.steps[n].cumulative]
  BY DEF RoutePrefix
<1>2. /\ Len(r.steps) \in Nat /\ DOMAIN r.steps = 1 .. Len(r.steps) /\ n \in DOMAIN r.steps
      /\ n \in Nat /\ n # 0 /\ 1 .. n \subseteq DOMAIN r.steps
  BY TravelFacts
<1>3. \A i \in DOMAIN r.steps :
        /\ r.steps[i] \in RouteStep /\ r.steps[i].cell \in Cells
        /\ r.steps[i].cost \in Nat /\ r.steps[i].cumulative \in Nat /\ r.steps[i].cost > 0
        /\ Adjacent(PreviousCell(r.start, r.steps, i), r.steps[i].cell)
        /\ r.steps[i].cumulative = (IF i = 1 THEN 0 ELSE r.steps[i - 1].cumulative) + r.steps[i].cost
  BY TravelFacts
<1>4. p.steps \in Seq(RouteStep) /\ DOMAIN p.steps = 1 .. n /\ Len(p.steps) = n /\ p.steps # << >>
  <2>1. p.steps \in [1 .. n -> RouteStep]
    BY <1>1, <1>2, <1>3
  <2> HIDE DEF p
  <2>2. p.steps \in Seq(RouteStep)
    BY <2>1, <1>2
  <2> QED
    BY <2>1, <2>2, <1>2
<1>5. \A i \in 1 .. n : p.steps[i] = r.steps[i]
  BY <1>1
<1>6. /\ p.start = r.start /\ p.destination = r.steps[n].cell /\ p.total = r.steps[n].cumulative
      /\ p = [start |-> p.start, destination |-> p.destination, steps |-> p.steps, total |-> p.total]
  BY <1>1
<1> HIDE DEF p
<1>7. p \in [start : Cells, destination : Cells, steps : Seq(RouteStep), total : Nat]
  BY <1>2, <1>3, <1>4, <1>6, TravelFacts
<1>8. ASSUME NEW i \in 1 .. n
      PROVE  /\ Adjacent(PreviousCell(p.start, p.steps, i), p.steps[i].cell) /\ p.steps[i].cost > 0
             /\ p.steps[i].cumulative = (IF i = 1 THEN 0 ELSE p.steps[i - 1].cumulative) + p.steps[i].cost
  <2>1. i \in DOMAIN r.steps /\ p.steps[i] = r.steps[i]
    BY <1>2, <1>5
  <2>2. i # 1 => i - 1 \in 1 .. n /\ p.steps[i - 1] = r.steps[i - 1]
    BY <1>2, <1>5
  <2>3. PreviousCell(p.start, p.steps, i) = PreviousCell(r.start, r.steps, i)
    BY <2>2, <1>6 DEF PreviousCell
  <2> QED
    BY <2>1, <2>2, <2>3, <1>3
<1>9. WellFormedRoute(p)
  <2>1. n \in 1 .. n
    BY <1>2
  <2> QED
    BY <2>1, <1>4, <1>5, <1>6, <1>8 DEF WellFormedRoute
<1>10. \A i \in DOMAIN p.steps : p.steps[i].cost = PriceFor(s, p.steps[i].cell) /\ p.steps[i].cost # Impassable
  BY <1>2, <1>4, <1>5 DEF Travels
<1> QED
  BY <1>4, <1>5, <1>6, <1>7, <1>9, <1>10 DEF Travels, p

-----------------------------------------------------------------------------
(* What a route rests on is where the stacks are, and not their points.    *)
LEMMA SamePlaces ==
  ASSUME \A s \in OnMap : stacks'[s].position = stacks[s].position
  PROVE  /\ \A s \in OnMap : MayTravel(s) <=> MayTravel(s)'
         /\ \A s \in OnMap : \A d : RouteTo(s, d)' = RouteTo(s, d)
         /\ \A s \in OnMap : \A r : Travels(s, r) => Travels(s, r)'
<1>1. Navigable <=> Navigable'
  BY DEF Navigable
<1>2. NavigationMap' = NavigationMap
  <2>1. \A c \in Cells : (CHOOSE s \in OnMap : stacks'[s].position = c) = (CHOOSE s \in OnMap : stacks[s].position = c)
    OBVIOUS
  <2>2. \A c \in Cells : (\E s \in OnMap : stacks'[s].position = c) <=> (\E s \in OnMap : stacks[s].position = c)
    OBVIOUS
  <2> QED
    BY <2>1, <2>2 DEF NavigationMap
<1>3. \A s \in OnMap : MayTravel(s) <=> MayTravel(s)'
  BY <1>1 DEF MayTravel
<1>4. \A s \in OnMap : \A d : RouteTo(s, d)' = RouteTo(s, d)
  BY <1>2 DEF RouteTo
<1>5. \A s \in OnMap : \A c : PriceFor(s, c)' = PriceFor(s, c)
  BY DEF PriceFor, Blocked
<1>6. \A s \in OnMap : \A r : Travels(s, r) => Travels(s, r)'
  BY <1>5 DEF Travels
<1> QED
  BY <1>3, <1>4, <1>6

LEMMA InitHasInv == SessionInit => SessionInv
<1> SUFFICES ASSUME SessionInit PROVE SessionInv
  OBVIOUS
<1>1. stacks \in [Stack -> [position : Int \X Int, move : Int]]
  BY WorldAssumption DEF SessionInit
<1>2. baseline \in [Stack -> Nat]
  <2>1. \A s \in Stack : stacks[s].move \in Int /\ Positive(stacks[s].move) \in Nat
    BY <1>1 DEF Positive
  <2> QED
    BY <2>1 DEF SessionInit
<1>3. WorldTypeOK
  BY <1>1, <1>2 DEF WorldTypeOK, SessionInit, Mode
<1>4. ModeIsRight /\ PlanIsFresh /\ MovementIsOnCourse /\ MovementIsNotInterrupted /\ PlansDoNotGoStale
  BY DEF SessionInit, ModeIsRight, PlanIsFresh, MovementIsOnCourse, MovementIsNotInterrupted, PlansDoNotGoStale
<1> QED
  BY <1>3, <1>4 DEF SessionInv

(* Commands that change nothing but the reply.                             *)
RepliesWell == MovementIsNotInterrupted /\ PlansDoNotGoStale

LEMMA SameKeepsInv ==
  ASSUME SessionInv, UNCHANGED <<stacks, baseline, movementVars>>, RepliesWell'
  PROVE  SessionInv'
<1>1. /\ stacks' = stacks /\ baseline' = baseline /\ mode' = mode /\ selected' = selected
      /\ planned' = planned /\ execution' = execution
  BY DEF movementVars
<1>2. (\A s \in OnMap : stacks'[s].position = stacks[s].position) /\ OnMap' = OnMap
  BY <1>1 DEF OnMap
<1>3. WorldTypeOK' /\ ModeIsRight'
  BY <1>1 DEF SessionInv, WorldTypeOK, ModeIsRight
<1>4. PlanIsFresh'
  BY <1>1, <1>2, SamePlaces DEF SessionInv, PlanIsFresh, MayTravel, PlannedMovement
<1>5. MovementIsOnCourse'
  BY <1>1, <1>2, SamePlaces DEF SessionInv, MovementIsOnCourse, MayTravel
<1> QED
  BY <1>3, <1>4, <1>5 DEF SessionInv, RepliesWell

(* Commands that leave neither a plan nor a movement.                      *)
LEMMA FreeKeepsInv ==
  ASSUME SessionInv, stacks' \in [Stack -> [position : Int \X Int, move : Int]], baseline' = baseline,
         mode' \in {"Idle", "StackSelected"}, selected' \in Stack \cup {NoStack},
         planned' = None, execution' = None, RepliesWell'
  PROVE  SessionInv'
<1>1. WorldTypeOK'
  BY DEF SessionInv, WorldTypeOK, Mode
<1>2. ModeIsRight' /\ PlanIsFresh' /\ MovementIsOnCourse'
  BY DEF ModeIsRight, PlanIsFresh, MovementIsOnCourse
<1> QED
  BY <1>1, <1>2 DEF SessionInv, RepliesWell

LEMMA TypeFacts ==
  ASSUME SessionInv
  PROVE  /\ stacks \in [Stack -> [position : Int \X Int, move : Int]] /\ baseline \in [Stack -> Nat]
         /\ mode \in Mode /\ selected \in Stack \cup {NoStack}
         /\ planned # None <=> mode = "RoutePlanned"
         /\ execution # None <=> mode = "Moving"
         /\ mode # "Moving" => execution = None
         /\ mode \notin {"Moving", "RoutePlanned"} => mode \in {"Idle", "StackSelected"}
BY DEF SessionInv, WorldTypeOK, ModeIsRight, Mode

LEMMA ReplyFacts ==
  ASSUME NEW event, NEW reason
  PROVE  /\ Reply(event) /\ event # "Interrupted" => RepliesWell'
         /\ Reject(reason) /\ reason \notin {"SelectedStackChanged", "StackPositionChanged",
                                             "MovementProfileChanged", "RouteChanged"} => RepliesWell'
BY DEF Reply, Reject, RepliesWell, MovementIsNotInterrupted, PlansDoNotGoStale

LEMMA SelectKeepsInv ==
  ASSUME SessionInv, NEW s \in Stack \cup {UnknownStack}, Select(s)
  PROVE  SessionInv'
<1>1. CASE s \notin Stack \/ (s \in Stack /\ Whereabouts[s] = "lost")
  <2>1. Reject("StackNotVisible") \/ Reject("StackNotFound")
    BY <1>1 DEF Select
  <2>2. UNCHANGED <<stacks, baseline, movementVars>>
    BY <1>1 DEF Select
  <2>3. RepliesWell'
    BY <2>1, ReplyFacts
  <2> QED
    BY <2>2, <2>3, SameKeepsInv
<1>2. CASE ~(s \notin Stack \/ (s \in Stack /\ Whereabouts[s] = "lost"))
  <2>1. /\ Become("StackSelected", s, None, None) /\ Reply("StackSelected")
        /\ stacks' = stacks /\ baseline' = baseline /\ s \in Stack
    BY <1>2 DEF Select
  <2>2. /\ mode' = "StackSelected" /\ selected' = s /\ planned' = None /\ execution' = None
    BY <2>1 DEF Become
  <2>3. RepliesWell'
    BY <2>1, ReplyFacts
  <2> QED
    BY <2>1, <2>2, <2>3, TypeFacts, FreeKeepsInv
<1> QED
  BY <1>1, <1>2

LEMMA ClearKeepsInv ==
  ASSUME SessionInv, ClearSelection
  PROVE  SessionInv'
<1>1. /\ mode' = "Idle" /\ selected' = NoStack /\ planned' = None /\ execution' = None
      /\ Reply("SelectionCleared") /\ stacks' = stacks /\ baseline' = baseline
  BY DEF ClearSelection, ResetIdle, Become
<1>2. RepliesWell'
  BY <1>1, ReplyFacts
<1> QED
  BY <1>1, <1>2, TypeFacts, FreeKeepsInv

LEMMA BusyKeepsInv ==
  ASSUME SessionInv, RejectBusy
  PROVE  SessionInv'
<1>1. Reject("Busy") /\ UNCHANGED <<stacks, baseline, movementVars>>
  BY DEF RejectBusy
<1>2. RepliesWell'
  BY <1>1, ReplyFacts
<1> QED
  BY <1>1, <1>2, SameKeepsInv

(* The reasons against a route are not those of a plan gone stale.         *)
LEMMA RouteRefusalFacts ==
  ASSUME NEW s \in OnMap, NEW d
  PROVE  /\ RouteRefusal(s, d) \in {"LeaderInstanceMissing", "MovementProfileUnavailable",
                                    "NavigationMapInvalid", "PathUnavailable", "None"}
         /\ RouteRefusal(s, d) = "None" <=>
              MayTravel(s) /\ RouteTo(s, d).status \in {"Found", "AlreadyAtDestination"}
<1>1. Leader[s] \in Profile \cup {"NoLeader", "NoProfile"}
  BY SessionAssumption, NoneIsNoStack
<1>2. "NoLeader" \notin Profile /\ "NoProfile" \notin Profile
  BY DEF Profile
<1> QED
  BY <1>1, <1>2 DEF RouteRefusal, MayTravel

LEMMA PlanKeepsInv ==
  ASSUME SessionInv, NEW destination, Plan(destination)
  PROVE  SessionInv'
<1> DEFINE refusal == IF selected = NoStack THEN "NoSelectedStack"
                      ELSE IF selected \notin OnMap THEN "StackNotVisible"
                      ELSE RouteRefusal(selected, destination)
           route == RouteTo(selected, destination).route
<1>1. mode # "Moving" /\ stacks' = stacks /\ baseline' = baseline /\ execution = None
  BY TypeFacts DEF Plan
<1>2. CASE refusal # "None"
  <2>1. /\ Become(IF selected = NoStack THEN "Idle" ELSE "StackSelected", selected, None, execution)
        /\ Reject(refusal)
    BY <1>2, Zenon DEF Plan
  <2>2. /\ mode' \in {"Idle", "StackSelected"} /\ selected' = selected /\ planned' = None /\ execution' = None
    BY <2>1, <1>1 DEF Become
  <2>3. refusal \notin {"SelectedStackChanged", "StackPositionChanged", "MovementProfileChanged", "RouteChanged"}
    BY RouteRefusalFacts
  <2>4. RepliesWell'
    <3> HIDE DEF refusal
    <3> QED
      BY <2>1, <2>3, ReplyFacts
  <2> QED
    BY <2>2, <2>4, <1>1, TypeFacts, FreeKeepsInv
<1>3. CASE refusal = "None"
  <2>1. /\ Become("RoutePlanned", selected, PlannedMovement(selected, Leader[selected], route), execution)
        /\ Reply("RoutePlanned")
    BY <1>3, Zenon DEF Plan
  <2>2. /\ mode' = "RoutePlanned" /\ selected' = selected /\ execution' = None
        /\ planned' = PlannedMovement(selected, Leader[selected], route)
    BY <2>1, <1>1 DEF Become
  <2>3. /\ selected \in OnMap /\ MayTravel(selected)
        /\ RouteTo(selected, destination).status \in {"Found", "AlreadyAtDestination"}
    BY <1>3, RouteRefusalFacts
  <2>4. route.destination = destination
    BY <2>3, FoundRoutesTravel
  <2> HIDE DEF route, refusal
  <2>5. planned'.route = route /\ planned'.stack = selected
    BY <2>2 DEF PlannedMovement
  <2>6. planned' # None
    BY <2>3, <2>5, NoneIsNoStack
  <2>7. \A s \in OnMap : \A d : (MayTravel(s) <=> MayTravel(s)') /\ RouteTo(s, d)' = RouteTo(s, d)
    BY <1>1, SamePlaces
  <2>8. PlanIsFresh'
    BY <1>1, <2>2, <2>3, <2>4, <2>5, <2>7 DEF PlanIsFresh, route, PlannedMovement, MayTravel
  <2>9. ModeIsRight' /\ MovementIsOnCourse'
    BY <2>2, <2>6 DEF ModeIsRight, MovementIsOnCourse
  <2>10. RepliesWell'
    BY <2>1, ReplyFacts
  <2>11. WorldTypeOK'
    BY <1>1, <2>2, TypeFacts DEF WorldTypeOK, Mode
  <2> QED
    BY <2>8, <2>9, <2>10, <2>11 DEF SessionInv, RepliesWell
<1> QED
  BY <1>2, <1>3

(* What a plan says is found again when it is confirmed.                   *)
LEMMA ConfirmHolds ==
  ASSUME SessionInv, planned # None
  PROVE  /\ ConfirmRefusal = "None"
         /\ RouteTo(selected, planned.route.destination).route = planned.route
         /\ planned = PlannedMovement(selected, Leader[selected], planned.route)
         /\ planned.stack = selected /\ selected \in OnMap /\ MayTravel(selected)
         /\ Travels(selected, planned.route) /\ planned.route.start = stacks[selected].position
         /\ planned.route.destination \in Cells
<1> DEFINE d == planned.route.destination
           found == RouteTo(selected, d)
<1>1. /\ MayTravel(selected) /\ found.status \in {"Found", "AlreadyAtDestination"}
      /\ planned = PlannedMovement(selected, Leader[selected], found.route)
  BY DEF SessionInv, PlanIsFresh
<1>2. /\ planned.stack = selected /\ planned.profile = Leader[selected] /\ planned.route = found.route
  BY <1>1 DEF PlannedMovement
<1>3. /\ Travels(selected, found.route) /\ found.route.start = stacks[selected].position /\ d \in Cells
  BY <1>1, FoundRoutesTravel
<1>4. selected \in OnMap /\ Leader[selected] \in Profile
  BY <1>1 DEF MayTravel
<1>5. RouteRefusal(selected, d) = "None"
  BY <1>1, <1>4, RouteRefusalFacts
<1> HIDE DEF found, d
<1>6. ConfirmRefusal = "None"
  BY <1>2, <1>3, <1>4, <1>5 DEF ConfirmRefusal, d
<1> QED
  BY <1>1, <1>2, <1>3, <1>4, <1>6 DEF found, d

LEMMA StartKeepsInvOfSession ==
  ASSUME SessionInv, planned # None, planned.route.steps # << >>, AffordableSteps(planned) # 0,
         Become("Moving", selected, None, Execution(planned)), Reply("MovementStarted"),
         stacks' = stacks, baseline' = baseline
  PROVE  SessionInv'
<1> DEFINE r == planned.route
           u == planned.unaffordable
           n == AffordableSteps(planned)
           x == execution'.route
           points == Positive(stacks[selected].move)
<1>1. /\ planned = PlannedMovement(selected, Leader[selected], r) /\ planned.stack = selected
      /\ selected \in OnMap /\ MayTravel(selected) /\ Travels(selected, r)
      /\ r.start = stacks[selected].position /\ r.destination \in Cells
  BY ConfirmHolds
<1>2. selected \in Stack /\ stacks[selected].move \in Int /\ points \in Int
  BY <1>1, NoneIsNoStack, TypeFacts DEF Positive
<1>3. u = FirstUnaffordable(r, points) /\ planned.profile = Leader[selected]
  BY <1>1 DEF PlannedMovement
<1>4. /\ u \in 0 .. Len(r.steps) /\ (u = 0 => \A i \in DOMAIN r.steps : r.steps[i].cumulative <= points)
      /\ (u # 0 => \A i \in 1 .. u - 1 : r.steps[i].cumulative <= points)
  <2> HIDE DEF points, r
  <2> QED
    BY <1>1, <1>2, <1>3, UnaffordableFacts
<1>5. Len(r.steps) \in Nat /\ DOMAIN r.steps = 1 .. Len(r.steps) /\ Len(r.steps) # 0
  <2> HIDE DEF r
  <2> QED
    BY <1>1, TravelFacts DEF r
<1>6. n = (IF u = 0 THEN Len(r.steps) ELSE u - 1) /\ n # 0
  BY DEF AffordableSteps
<1>7. n \in 1 .. Len(r.steps) /\ \A i \in 1 .. n : r.steps[i].cumulative <= points
  <2> HIDE DEF n, u, r, points
  <2> QED
    BY <1>4, <1>5, <1>6
<1>8. /\ mode' = "Moving" /\ selected' = selected /\ planned' = None /\ execution' = Execution(planned)
  BY DEF Become
<1>9. execution' = [stack |-> selected, profile |-> Leader[selected],
                    route |-> IF u = 0 THEN r ELSE RoutePrefix(r, n),
                    requested |-> r.destination, limited |-> u # 0, next |-> 1, spent |-> 0]
  BY <1>1, <1>3, <1>8 DEF Execution
<1>10. /\ execution' = [stack |-> selected, profile |-> Leader[selected], route |-> x,
                        requested |-> r.destination, limited |-> u # 0, next |-> 1, spent |-> 0]
       /\ x = IF u = 0 THEN r ELSE RoutePrefix(r, n)
       /\ execution'.requested = r.destination /\ execution'.limited = (u # 0)
       /\ execution'.next = 1 /\ execution'.spent = 0 /\ execution'.stack = selected
  BY <1>9
<1> HIDE DEF x, n, u, r, points
<1>11. /\ Travels(selected, x) /\ x.start = r.start /\ Len(x.steps) = n
       /\ \A i \in 1 .. n : x.steps[i] = r.steps[i]
  <2>1. CASE u = 0
    BY <2>1, <1>1, <1>6, <1>10
  <2>2. CASE u # 0
    BY <2>2, <1>1, <1>7, <1>10, PrefixTravels
  <2> QED
    BY <2>1, <2>2
<1>12. DOMAIN x.steps = 1 .. n /\ n \in Nat /\ 1 \in 1 .. n
  BY <1>5, <1>7, <1>11, TravelFacts
<1>13. points = stacks[selected].move
  <2>1. 1 \in DOMAIN x.steps
    BY <1>12
  <2>2. x.steps[1].cumulative \in Nat /\ x.steps[1].cost \in Nat /\ x.steps[1].cost > 0
        /\ x.steps[1].cumulative = 0 + x.steps[1].cost
    BY <2>1, <1>11, TravelFacts
  <2>3. x.steps[1].cumulative <= points
    BY <1>7, <1>11, <1>12
  <2>4. points > 0
    BY <2>2, <2>3, <1>2
  <2> QED
    BY <2>4, <1>2 DEF points, Positive
<1>14. \A i \in DOMAIN x.steps : x.steps[i].cumulative <= stacks[selected].move + 0
  BY <1>2, <1>7, <1>11, <1>12, <1>13
<1>15. \A s \in OnMap : (MayTravel(s) => MayTravel(s)') /\ \A y : Travels(s, y) => Travels(s, y)'
  <2>1. \A s \in OnMap : stacks'[s].position = stacks[s].position
    OBVIOUS
  <2> QED
    BY <2>1, SamePlaces
<1>16. MovementIsOnCourse'
  <2>1. stacks'[selected'].position = PreviousCell(x.start, x.steps, 1)
    BY <1>1, <1>8, <1>11 DEF PreviousCell
  <2>2. execution'.requested \in Cells /\ execution'.limited \in BOOLEAN
        /\ (~execution'.limited => x.destination = execution'.requested)
    BY <1>1, <1>10 DEF r
  <2>3. MayTravel(selected)'
    BY <1>1, <1>8, <1>15 DEF MayTravel
  <2>4. Travels(selected, execution.route)'
    BY <1>1, <1>8, <1>11, <1>15 DEF x
  <2>5. \A i \in DOMAIN x.steps : x.steps[i].cumulative <= stacks'[selected'].move + 0
    BY <1>8, <1>14
  <2> QED
    BY <2>1, <2>2, <2>3, <2>4, <2>5, <1>8, <1>10, <1>12 DEF MovementIsOnCourse, x
<1>17. ModeIsRight' /\ PlanIsFresh'
  BY <1>1, <1>8, <1>10, NoneIsNoStack DEF ModeIsRight, PlanIsFresh
<1>18. WorldTypeOK' /\ RepliesWell'
  BY <1>8, TypeFacts, ReplyFacts DEF WorldTypeOK, Mode
<1> QED
  BY <1>16, <1>17, <1>18 DEF SessionInv, RepliesWell

LEMMA ConfirmKeepsInv ==
  ASSUME SessionInv, Confirm
  PROVE  SessionInv'
<1> DEFINE refreshed == PlannedMovement(planned.stack, Leader[planned.stack],
                                        RouteTo(planned.stack, planned.route.destination).route)
<1>1. mode # "Moving" /\ stacks' = stacks /\ baseline' = baseline /\ execution = None
  BY TypeFacts DEF Confirm
<1>2. CASE selected = NoStack \/ planned = None
  <2>1. Reject("NoSelectedStack") \/ Reject("NoPlannedRoute")
    BY <1>2 DEF Confirm
  <2>2. UNCHANGED <<stacks, baseline, movementVars>>
    BY <1>1, <1>2 DEF Confirm
  <2>3. RepliesWell'
    BY <2>1, ReplyFacts
  <2> QED
    BY <2>2, <2>3, SameKeepsInv
<1>3. CASE ~(selected = NoStack \/ planned = None)
  <2>1. /\ ConfirmRefusal = "None" /\ refreshed = planned /\ planned.stack = selected /\ selected \in Stack
        /\ refreshed.route = planned.route
    BY <1>3, ConfirmHolds, NoneIsNoStack
  <2>2. Confirmed(refreshed)
    BY <1>3, <2>1 DEF Confirm
  <2> HIDE DEF refreshed
  <2>3. Confirmed(planned)
    BY <2>1, <2>2
  <2>4. CASE planned.route.steps = << >>
    <3>1. ResetSelected /\ Reply("MovementNotRequired")
      BY <2>3, <2>4 DEF Confirmed
    <3>2. /\ mode' = "StackSelected" /\ selected' = selected /\ planned' = None /\ execution' = None
      BY <3>1 DEF ResetSelected, Become
    <3>3. RepliesWell'
      BY <3>1, ReplyFacts
    <3> QED
      BY <3>2, <3>3, <1>1, TypeFacts, FreeKeepsInv
  <2>5. CASE planned.route.steps # << >> /\ AffordableSteps(planned) = 0
    <3>1. Become(mode, selected, planned, execution) /\ Reject("InsufficientMovementPoints")
      BY <2>3, <2>5 DEF Confirmed
    <3>2. UNCHANGED <<stacks, baseline, movementVars>>
      BY <3>1, <1>1 DEF Become, movementVars
    <3>3. RepliesWell'
      BY <3>1, ReplyFacts
    <3> QED
      BY <3>2, <3>3, SameKeepsInv
  <2>6. CASE planned.route.steps # << >> /\ AffordableSteps(planned) # 0
    <3>1. Become("Moving", selected, None, Execution(planned)) /\ Reply("MovementStarted")
      BY <2>3, <2>6 DEF Confirmed
    <3> QED
      BY <3>1, <2>6, <1>1, <1>3, StartKeepsInvOfSession
  <2> QED
    BY <2>4, <2>5, <2>6
<1> QED
  BY <1>2, <1>3

(* Every check of the next step is passed.                                 *)
LEMMA StepHolds ==
  ASSUME SessionInv, execution # None
  PROVE  LET r == execution.route
             n == execution.next
             place == stacks[selected].position
         IN  /\ StepRefusal = "None" /\ execution.stack = selected /\ selected \in OnMap /\ mode = "Moving"
             /\ MayTravel(selected) /\ Travels(selected, r)
             /\ n \in 1 .. Len(r.steps) /\ DOMAIN r.steps = 1 .. Len(r.steps) /\ Len(r.steps) \in Nat
             /\ NextStep = r.steps[n] /\ NextStep.cell \in Cells /\ NextStep.cost \in Nat /\ NextStep.cost > 0
             /\ Adjacent(place, NextStep.cell) /\ ~Blocked(selected, NextStep.cell)
             /\ NextStep.cost = PriceFor(selected, NextStep.cell)
             /\ NextStep.cumulative = execution.spent + NextStep.cost
             /\ NextStep.cost <= stacks[selected].move /\ stacks[selected].move \in Int
             /\ execution.spent \in Nat
<1> DEFINE r == execution.route
           n == execution.next
           m == stacks[selected].move
           cell == r.steps[n].cell
<1>1. /\ execution.stack = selected /\ execution.profile = Leader[selected]
      /\ MayTravel(selected) /\ Travels(selected, r) /\ n \in DOMAIN r.steps
      /\ stacks[selected].position = PreviousCell(r.start, r.steps, n)
      /\ execution.spent = IF n = 1 THEN 0 ELSE r.steps[n - 1].cumulative
      /\ \A i \in DOMAIN r.steps : r.steps[i].cumulative <= m + execution.spent
  BY DEF SessionInv, MovementIsOnCourse
<1>2. selected \in OnMap /\ selected \in Stack /\ Navigable /\ m \in Int
  BY <1>1, NoneIsNoStack, TypeFacts DEF MayTravel
<1> HIDE DEF r, m
<1>3. /\ Len(r.steps) \in Nat /\ DOMAIN r.steps = 1 .. Len(r.steps)
      /\ \A i \in DOMAIN r.steps :
           /\ r.steps[i].cell \in Cells /\ r.steps[i].cost \in Nat /\ r.steps[i].cumulative \in Nat
           /\ r.steps[i].cost > 0
           /\ Adjacent(PreviousCell(r.start, r.steps, i), r.steps[i].cell)
           /\ r.steps[i].cumulative = (IF i = 1 THEN 0 ELSE r.steps[i - 1].cumulative) + r.steps[i].cost
  BY <1>1, TravelFacts
<1>4. n \in Nat /\ (n # 1 => n - 1 \in DOMAIN r.steps)
  BY <1>1, <1>3
<1>5. execution.spent \in Nat
  BY <1>1, <1>3, <1>4
<1>6. /\ cell \in Cells /\ r.steps[n].cost \in Nat /\ r.steps[n].cost > 0
      /\ r.steps[n].cumulative = execution.spent + r.steps[n].cost
      /\ Adjacent(stacks[selected].position, cell)
  BY <1>1, <1>3
<1>7. r.steps[n].cost = PriceFor(selected, cell) /\ r.steps[n].cost # Impassable
  BY <1>1 DEF Travels
<1>8. r.steps[n].cost <= m
  <2>1. r.steps[n].cumulative <= m + execution.spent
    BY <1>1
  <2> QED
    BY <2>1, <1>2, <1>5, <1>6
<1>9. ~Blocked(selected, cell)
  BY <1>7 DEF PriceFor
<1>10. NextStep = r.steps[n]
  BY DEF NextStep, r
<1>11. StepOrigin = stacks[selected].position
  BY <1>1 DEF StepOrigin, r
<1>12. StepCost = r.steps[n].cost
  <2>1. StepCost = EnterCost(NavigationMap, Leader[selected], selected, cell)
    BY <1>1, <1>10 DEF StepCost
  <2> QED
    BY <2>1, <1>2, <1>6, <1>7, PriceIsOfWorld
<1>13. StepIndexOK
  BY <1>1 DEF StepIndexOK, r
<1>14. StepRefusal = "None"
  <2>1. ~(stacks[execution.stack].move < NextStep.cost)
    BY <1>1, <1>2, <1>6, <1>8, <1>10 DEF m
  <2> HIDE DEF n, cell
  <2> QED
    BY <2>1, <1>1, <1>2, <1>6, <1>7, <1>10, <1>11, <1>12, <1>13 DEF StepRefusal, cell
<1>15. mode = "Moving"
  BY TypeFacts
<1> QED
  BY <1>1, <1>2, <1>3, <1>5, <1>6, <1>7, <1>8, <1>9, <1>10, <1>14, <1>15 DEF r, m

(* A step that is not the last leaves the movement on its course.          *)
LEMMA CommitKeepsInv ==
  ASSUME SessionInv, execution # None, CommitStep, baseline' = baseline
  PROVE  /\ SessionInv'
         /\ mode' # "Moving" =>
              /\ stacks'[selected].position = execution.route.destination
              /\ mode' = "StackSelected" /\ selected' = selected
<1> DEFINE r == execution.route
           n == execution.next
           m == stacks[selected].move
           cell == NextStep.cell
           cost == NextStep.cost
           done == CommittedExecution.next > Len(execution.route.steps)
           arrived == /\ NextStep.cell = execution.route.destination
                      /\ CommittedExecution.spent = execution.route.total
<1>1. /\ execution.stack = selected /\ selected \in OnMap /\ mode = "Moving"
      /\ MayTravel(selected) /\ Travels(selected, r)
      /\ n \in 1 .. Len(r.steps) /\ DOMAIN r.steps = 1 .. Len(r.steps) /\ Len(r.steps) \in Nat
      /\ NextStep = r.steps[n] /\ cell \in Cells /\ cost \in Nat /\ cost > 0
      /\ ~Blocked(selected, cell)
      /\ NextStep.cumulative = execution.spent + cost
      /\ cost <= m /\ m \in Int /\ execution.spent \in Nat
  BY StepHolds
<1>2. /\ execution = [stack |-> selected, profile |-> Leader[selected], route |-> r,
                      requested |-> execution.requested, limited |-> execution.limited,
                      next |-> n, spent |-> execution.spent]
      /\ execution.requested \in Cells /\ execution.limited \in BOOLEAN
      /\ ~execution.limited => r.destination = execution.requested
      /\ \A i \in DOMAIN r.steps : r.steps[i].cumulative <= m + execution.spent
  BY DEF SessionInv, MovementIsOnCourse
<1>3. /\ stacks \in [Stack -> [position : Int \X Int, move : Int]] /\ planned = None /\ selected \in Stack
  BY <1>1, NoneIsNoStack, TypeFacts
<1>4. stacks' = [stacks EXCEPT ![selected] = [position |-> cell, move |-> m - cost]]
  BY <1>1 DEF CommitStep, CommittedStack
<1>5. CommittedExecution = [stack |-> selected, profile |-> Leader[selected], route |-> r,
                            requested |-> execution.requested, limited |-> execution.limited,
                            next |-> n + 1, spent |-> execution.spent + cost]
  <2>1. CommittedExecution = [execution EXCEPT !.next = n + 1, !.spent = execution.spent + cost]
    BY DEF CommittedExecution
  <2> DEFINE Progress(i, c) ==
               [stack |-> selected, profile |-> Leader[selected], route |-> r, requested |-> execution.requested,
                limited |-> execution.limited, next |-> i, spent |-> c]
  <2> DEFINE before == Progress(n, execution.spent)
             after == Progress(n + 1, execution.spent + cost)
  <2>2. execution = before
    BY <1>2, Zenon
  <2>3. [before EXCEPT !.next = n + 1] = Progress(n + 1, execution.spent)
    OBVIOUS
  <2>4. [Progress(n + 1, execution.spent) EXCEPT !.spent = execution.spent + cost] = after
    OBVIOUS
  <2> HIDE DEF Progress, before, after, r, n, cost
  <2>5. CommittedExecution = after
    BY ONLY <2>1, <2>2, <2>3, <2>4
  <2> QED
    BY <2>5 DEF Progress, after, r, n
<1>6. CommittedExecution.next = n + 1 /\ CommittedExecution.spent = NextStep.cumulative
  BY <1>1, <1>5
<1>7. cell \in Int \X Int
  <2> HIDE DEF cell
  <2> QED
    BY <1>1, CellFacts
<1> HIDE DEF m, cost, cell, done, arrived, r
<1>8. /\ stacks' \in [Stack -> [position : Int \X Int, move : Int]]
      /\ stacks'[selected].position = cell /\ stacks'[selected].move = m - cost
      /\ \A s \in OnMap \ {selected} : stacks'[s] = stacks[s]
  BY <1>1, <1>3, <1>4, <1>7, NoneIsNoStack
<1>9. CASE ~done
  <2>1. Become(mode, selected, planned, CommittedExecution) /\ Reply("StepCommitted")
    BY <1>9 DEF CommitStep, done
  <2>2. mode' = "Moving" /\ selected' = selected /\ planned' = None /\ execution' = CommittedExecution
    BY <2>1, <1>1, <1>3 DEF Become
  <2>3. n + 1 \in DOMAIN r.steps /\ n \in Nat
    BY <1>1, <1>6, <1>9 DEF done, r
  <2>4. Navigable'
    <3>1. /\ Terrain.blocking \subseteq Cells /\ cell \in Cells \ Terrain.blocking
          /\ \A t \in OnMap \ {selected} : stacks[t].position # cell
      BY <1>1 DEF Navigable, MayTravel, Blocked, cell
    <3>2. ASSUME NEW s \in OnMap
          PROVE  /\ stacks'[s].position \in Cells \ Terrain.blocking
                 /\ \A t \in OnMap \ {s} : stacks'[s].position # stacks'[t].position
      <4>1. CASE s = selected
        BY <4>1, <3>1, <1>8
      <4>2. CASE s # selected
        BY <4>2, <3>1, <1>1, <1>8 DEF Navigable, MayTravel
      <4> QED
        BY <4>1, <4>2
    <3> QED
      BY <3>1, <3>2 DEF Navigable
  <2>5. \A c : PriceFor(selected, c)' = PriceFor(selected, c)
    BY <1>1, <1>8, <2>2 DEF PriceFor, Blocked
  <2>6. \A x : Travels(selected, x) => Travels(selected, x)'
    BY <2>2, <2>5 DEF Travels
  <2>7. execution'.route = r /\ execution'.next = n + 1 /\ execution'.spent = execution.spent + cost
        /\ execution'.requested = execution.requested /\ execution'.limited = execution.limited
        /\ execution'.stack = selected
    BY <2>2, <1>5
  <2>8. Travels(selected, execution.route)' /\ MayTravel(selected)'
    BY <1>1, <2>2, <2>4, <2>6, <2>7 DEF MayTravel
  <2>9. cell = PreviousCell(r.start, r.steps, n + 1)
    BY <1>1, <2>3 DEF PreviousCell, cell
  <2>10. execution'.spent = r.steps[(n + 1) - 1].cumulative
    BY <1>1, <2>3, <2>7 DEF cost
  <2>11. \A i \in DOMAIN r.steps : r.steps[i].cumulative <= (m - cost) + (execution.spent + cost)
    BY <1>1, <1>2 DEF cost
  <2>12. MovementIsOnCourse'
    <3>1. execution' = [stack |-> selected', profile |-> Leader[selected'], route |-> execution'.route,
                        requested |-> execution'.requested, limited |-> execution'.limited,
                        next |-> execution'.next, spent |-> execution'.spent]
      BY <1>5, <2>2
    <3>2. stacks'[selected'].position = PreviousCell(r.start, r.steps, n + 1)
      BY <1>8, <2>2, <2>9
    <3>3. execution'.spent = IF n + 1 = 1 THEN 0 ELSE r.steps[(n + 1) - 1].cumulative
      BY <1>1, <2>10
    <3>4. \A i \in DOMAIN r.steps : r.steps[i].cumulative <= stacks'[selected'].move + execution'.spent
      BY <1>8, <2>2, <2>7, <2>11
    <3> QED
      BY <1>2, <2>3, <2>7, <2>8, <3>1, <3>2, <3>3, <3>4 DEF MovementIsOnCourse
  <2>13. ModeIsRight' /\ PlanIsFresh'
    BY <2>2, <2>7, <1>3, NoneIsNoStack DEF ModeIsRight, PlanIsFresh
  <2>14. WorldTypeOK' /\ RepliesWell'
    BY <1>8, <2>1, <2>2, TypeFacts, ReplyFacts DEF WorldTypeOK, Mode
  <2> QED
    BY <2>2, <2>12, <2>13, <2>14 DEF SessionInv, RepliesWell
<1>10. CASE done
  <2>1. n = Len(r.steps) /\ r.steps # << >>
    BY <1>1, <1>6, <1>10 DEF done, r
  <2>2. r.destination = r.steps[n].cell /\ r.total = r.steps[n].cumulative
    BY <1>1, <2>1 DEF Travels, WellFormedRoute
  <2>3. arrived /\ cell = r.destination
    BY <1>1, <1>6, <2>2 DEF arrived, r, cell
  <2>4. ResetSelected /\ Reply("MovementCompleted")
    BY <1>10, <2>3 DEF CommitStep, done, arrived
  <2>5. mode' = "StackSelected" /\ selected' = selected /\ planned' = None /\ execution' = None
    BY <2>4 DEF ResetSelected, Become
  <2>6. RepliesWell'
    BY <2>4, ReplyFacts
  <2> QED
    BY <1>3, <1>8, <2>3, <2>5, <2>6, FreeKeepsInv DEF r
<1> QED
  BY <1>9, <1>10

LEMMA AdvanceKeepsInv ==
  ASSUME SessionInv, AdvanceStep
  PROVE  SessionInv'
<1>1. CASE mode # "Moving" \/ execution = None
  <2>1. Reject("NoActiveMovement") /\ UNCHANGED <<stacks, baseline, movementVars>>
    BY <1>1 DEF AdvanceStep
  <2>2. RepliesWell'
    BY <2>1, ReplyFacts
  <2> QED
    BY <2>1, <2>2, SameKeepsInv
<1>2. CASE ~(mode # "Moving" \/ execution = None)
  <2>1. CommitStep /\ baseline' = baseline
    BY <1>2, StepHolds DEF AdvanceStep
  <2> QED
    BY <2>1, <1>2, CommitKeepsInv
<1> QED
  BY <1>1, <1>2

(* Other points change what a plan can pay for, and nothing else of it.    *)
LEMMA PointsKeepInv ==
  ASSUME SessionInv, NEW points \in [Stack -> Int], ChangeSelectedMovementPoints(points)
  PROVE  SessionInv'
<1>1. mode # "Moving" /\ baseline' = baseline /\ execution = None
  BY TypeFacts DEF ChangeSelectedMovementPoints
<1>2. CASE selected = NoStack
  <2>1. Reject("NoSelectedStack") /\ UNCHANGED <<stacks, baseline, movementVars>>
    BY <1>1, <1>2 DEF ChangeSelectedMovementPoints
  <2>2. RepliesWell'
    BY <2>1, ReplyFacts
  <2> QED
    BY <2>1, <2>2, SameKeepsInv
<1>3. CASE selected # NoStack /\ selected \notin OnMap
  <2>1. Reject("StackNotVisible") /\ ResetIdle /\ stacks' = stacks
    BY <1>3 DEF ChangeSelectedMovementPoints
  <2>2. mode' = "Idle" /\ selected' = NoStack /\ planned' = None /\ execution' = None
    BY <2>1 DEF ResetIdle, Become
  <2>3. RepliesWell'
    BY <2>1, ReplyFacts
  <2> QED
    BY <2>1, <2>2, <2>3, <1>1, TypeFacts, FreeKeepsInv
<1>4. CASE selected # NoStack /\ selected \in OnMap
  <2> DEFINE p == points[selected]
             refreshed == RefreshedPlan(p)
  <2>1. /\ stacks' = [stacks EXCEPT ![selected].move = p]
        /\ Become(mode, selected, refreshed, execution) /\ Reply("PointsChanged")
    BY <1>4 DEF ChangeSelectedMovementPoints
  <2>2. mode' = mode /\ selected' = selected /\ planned' = refreshed /\ execution' = None
    BY <2>1, <1>1 DEF Become
  <2>3. stacks \in [Stack -> [position : Int \X Int, move : Int]] /\ selected \in Stack /\ p \in Int
    BY <1>4, NoneIsNoStack, TypeFacts
  <2> HIDE DEF p, refreshed
  <2>4. /\ stacks' \in [Stack -> [position : Int \X Int, move : Int]] /\ stacks'[selected].move = p
        /\ \A s \in OnMap : stacks'[s].position = stacks[s].position
    BY <2>1, <2>3, NoneIsNoStack
  <2>5. \A s \in OnMap : \A d : (MayTravel(s) <=> MayTravel(s)') /\ RouteTo(s, d)' = RouteTo(s, d)
    BY <2>4, SamePlaces
  <2>6. RepliesWell' /\ WorldTypeOK' /\ MovementIsOnCourse'
    BY <2>1, <2>2, <2>4, <1>1, TypeFacts, ReplyFacts DEF WorldTypeOK, MovementIsOnCourse
  <2>7. CASE mode = "RoutePlanned"
    <3> DEFINE r == planned.route
    <3>1. planned # None
      BY <2>7, TypeFacts
    <3>2. /\ planned = PlannedMovement(selected, Leader[selected], r) /\ MayTravel(selected)
          /\ RouteTo(selected, r.destination).route = r
          /\ RouteTo(selected, r.destination).status \in {"Found", "AlreadyAtDestination"}
      BY <3>1, ConfirmHolds DEF SessionInv, PlanIsFresh
    <3>3. planned' = [planned EXCEPT !.available = Positive(p), !.unaffordable = FirstUnaffordable(r, Positive(p))]
      BY <2>2, <2>7 DEF refreshed, RefreshedPlan
    <3> HIDE DEF r
    <3>4. planned' = [stack |-> selected, profile |-> Leader[selected], route |-> r, available |-> Positive(p),
                      unaffordable |-> FirstUnaffordable(r, Positive(p))]
      BY <3>2, <3>3 DEF PlannedMovement
    <3>5. planned'.route = r /\ planned'.stack = selected
      BY <3>4
    <3>6. PlanIsFresh'
      BY <1>4, <2>2, <2>4, <2>5, <3>2, <3>4, <3>5 DEF PlanIsFresh, PlannedMovement, MayTravel, Positive, FirstUnaffordable
    <3>7. ModeIsRight'
      BY <1>1, <2>2, <2>3, <2>7, <3>5, NoneIsNoStack DEF ModeIsRight
    <3> QED
      BY <2>6, <3>6, <3>7 DEF SessionInv, RepliesWell
  <2>8. CASE mode # "RoutePlanned"
    <3>1. planned' = None
      BY <2>2, <2>8, TypeFacts DEF refreshed, RefreshedPlan
    <3>2. PlanIsFresh' /\ ModeIsRight'
      BY <3>1, <1>1, <2>2, <2>8, TypeFacts DEF PlanIsFresh, ModeIsRight
    <3> QED
      BY <2>6, <3>2 DEF SessionInv, RepliesWell
  <2> QED
    BY <2>7, <2>8
<1> QED
  BY <1>2, <1>3, <1>4

LEMMA NextKeepsInv == SessionInv /\ [SessionNext]_sessionVars => SessionInv'
<1> SUFFICES ASSUME SessionInv, [SessionNext]_sessionVars PROVE SessionInv'
  OBVIOUS
<1>1. CASE RejectBusy
  BY <1>1, BusyKeepsInv
<1>2. ASSUME NEW s \in Stack \cup {UnknownStack}, Select(s) PROVE SessionInv'
  BY <1>2, SelectKeepsInv
<1>3. CASE ClearSelection
  BY <1>3, ClearKeepsInv
<1>4. ASSUME NEW destination \in Destination, Plan(destination) PROVE SessionInv'
  BY <1>4, PlanKeepsInv
<1>5. CASE Confirm
  BY <1>5, ConfirmKeepsInv
<1>6. CASE AdvanceStep
  BY <1>6, AdvanceKeepsInv
<1>7. CASE DebugReset
  <2>1. baseline \in [Stack -> Int]
    BY TypeFacts
  <2> QED
    BY <2>1, <1>7, PointsKeepInv DEF DebugReset
<1>8. CASE DebugFree
  <2>1. [s \in Stack |-> FreeMovementPoints] \in [Stack -> Int]
    BY SessionAssumption
  <2> QED
    BY <2>1, <1>8, PointsKeepInv DEF DebugFree
<1>9. CASE UNCHANGED sessionVars
  <2>1. UNCHANGED <<stacks, baseline, movementVars>> /\ reply' = reply
    BY <1>9 DEF sessionVars, movementVars
  <2>2. RepliesWell'
    BY <2>1 DEF SessionInv, RepliesWell, MovementIsNotInterrupted, PlansDoNotGoStale
  <2> QED
    BY <2>1, <2>2, SameKeepsInv
<1> QED
  BY <1>1, <1>2, <1>3, <1>4, <1>5, <1>6, <1>7, <1>8, <1>9 DEF SessionNext

(* The inductive invariant: a plan is the one that would be made now, and  *)
(* a movement is where its progress says, on a route that still stands.    *)
THEOREM SessionInvariant == SessionSpec => []SessionInv
<1>1. SessionInit => SessionInv
  BY InitHasInv
<1>2. SessionInv /\ [SessionNext]_sessionVars => SessionInv'
  BY NextKeepsInv
<1> QED
  BY <1>1, <1>2, PTL DEF SessionSpec

LEMMA TravelsIsRoute ==
  ASSUME NEW s, NEW r, Travels(s, r)
  PROVE  Route(r) /\ WellFormedRoute(r)
BY TravelFacts DEF Route, Travels

LEMMA PlanIsWellFormed ==
  ASSUME SessionInv, planned # None
  PROVE  /\ planned.stack = selected /\ planned.stack \in OnMap /\ planned.profile \in Profile
         /\ Route(planned.route) /\ WellFormedRoute(planned.route) /\ planned.available \in Nat
         /\ planned.unaffordable \in 0 .. Len(planned.route.steps)
         /\ planned.unaffordable = FirstUnaffordable(planned.route, planned.available)
<1> DEFINE r == planned.route
           found == RouteTo(selected, planned.route.destination)
           points == Positive(stacks[selected].move)
<1>1. /\ MayTravel(selected) /\ found.status \in {"Found", "AlreadyAtDestination"}
      /\ planned = PlannedMovement(selected, Leader[selected], found.route)
  BY DEF SessionInv, PlanIsFresh
<1>2. selected \in OnMap /\ selected \in Stack /\ Leader[selected] \in Profile
  BY <1>1, NoneIsNoStack DEF MayTravel
<1>3. points \in Nat
  <2>1. stacks[selected].move \in Int
    BY <1>2, TypeFacts
  <2> QED
    BY <2>1 DEF Positive
<1> HIDE DEF points
<1>4. planned = [stack |-> selected, profile |-> Leader[selected], route |-> found.route, available |-> points,
                 unaffordable |-> FirstUnaffordable(found.route, points)]
  BY <1>1 DEF PlannedMovement, points
<1>5. Travels(selected, found.route)
  BY <1>1, FoundRoutesTravel
<1> HIDE DEF found, r
<1>6. Route(found.route) /\ WellFormedRoute(found.route)
  BY <1>5, TravelsIsRoute
<1>7. FirstUnaffordable(found.route, points) \in 0 .. Len(found.route.steps)
  BY <1>3, <1>5, UnaffordableFacts
<1> QED
  BY <1>2, <1>3, <1>4, <1>6, <1>7

LEMMA MovementIsWellFormed ==
  ASSUME SessionInv, execution # None
  PROVE  /\ execution.stack = selected /\ selected \in OnMap /\ execution.profile \in Profile
         /\ Route(execution.route) /\ WellFormedRoute(execution.route)
         /\ execution.requested \in Cells /\ execution.limited \in BOOLEAN
         /\ execution.next \in Nat \ {0} /\ execution.next \in DOMAIN execution.route.steps
         /\ execution.spent \in Nat
         /\ stacks[selected].move + execution.spent >= 0
         /\ FirstUnaffordable(execution.route, stacks[selected].move + execution.spent) = 0
<1> DEFINE r == execution.route
           budget == stacks[selected].move + execution.spent
<1>1. /\ execution.stack = selected /\ selected \in OnMap /\ MayTravel(selected) /\ Travels(selected, r)
      /\ execution.next \in 1 .. Len(r.steps) /\ DOMAIN r.steps = 1 .. Len(r.steps)
      /\ Len(r.steps) \in Nat /\ execution.spent \in Nat
      /\ NextStep.cost \in Nat /\ NextStep.cost <= stacks[selected].move /\ stacks[selected].move \in Int
  BY StepHolds
<1>2. /\ execution.profile = Leader[selected] /\ execution.requested \in Cells /\ execution.limited \in BOOLEAN
      /\ \A i \in DOMAIN r.steps : r.steps[i].cumulative <= budget
  BY DEF SessionInv, MovementIsOnCourse
<1>3. budget \in Int /\ budget >= 0
  BY <1>1
<1> HIDE DEF r, budget
<1>4. Route(r) /\ WellFormedRoute(r)
  BY <1>1, TravelsIsRoute
<1>5. FirstUnaffordable(r, budget) = 0
  BY <1>1, <1>2, <1>3, UnaffordableFacts
<1>6. execution.next \in Nat \ {0} /\ execution.next \in DOMAIN r.steps
  BY <1>1
<1>7. Leader[selected] \in Profile
  BY <1>1 DEF MayTravel
<1> QED
  BY <1>1, <1>2, <1>3, <1>4, <1>5, <1>6, <1>7 DEF r, budget

LEMMA InvMeansPlansHold == SessionInv => PlansHold
<1> SUFFICES ASSUME SessionInv PROVE PlansHold
  OBVIOUS
<1>1. SessionTypeOK
  <2>1. \A s \in Stack : stacks[s].move \in Int /\ baseline[s] \in Nat
    BY TypeFacts
  <2> QED
    BY <2>1, TypeFacts, PlanIsWellFormed, MovementIsWellFormed DEF SessionTypeOK
<1>2. PreviewNeverThrows
  BY <1>1, TypeFacts, PlanIsWellFormed, MovementIsWellFormed DEF PreviewNeverThrows
<1> QED
  BY <1>2 DEF PlansHold, SessionInv

(* Neither a movement, nor a plan, nor its preview meets a changed world   *)
(* (GameSession.cpp:244-309, 364-413), for every map and every world: no   *)
(* sequence of commands makes one of the re-checks of Confirm and          *)
(* AdvanceStep fail once the plan they check was made.                     *)
THEOREM PlansAlwaysHold == SessionSpec => []PlansHold
BY SessionInvariant, InvMeansPlansHold, PTL

(* Only the last step of a movement ends it, and on the promised cell.     *)
LEMMA StepArrives ==
  ASSUME SessionInv, [SessionNext]_sessionVars, mode = "Moving", mode' # "Moving"
  PROVE  /\ execution # None /\ CommitStep
         /\ stacks'[execution.stack].position = execution.route.destination
         /\ ~execution.limited => execution.route.destination = execution.requested
         /\ mode' = "StackSelected" /\ selected' = execution.stack
<1>1. execution # None
  BY TypeFacts
<1>2. AdvanceStep
  BY DEF SessionNext, sessionVars, movementVars, RejectBusy, Select, ClearSelection, Plan, Confirm,
         DebugReset, DebugFree, ChangeSelectedMovementPoints
<1>3. CommitStep /\ baseline' = baseline
  BY <1>1, <1>2, StepHolds DEF AdvanceStep
<1>4. execution.stack = selected
  BY <1>1, StepHolds
<1>5. ~execution.limited => execution.route.destination = execution.requested
  BY <1>1 DEF SessionInv, MovementIsOnCourse
<1> QED
  BY <1>1, <1>3, <1>4, <1>5, CommitKeepsInv

(* A movement that ends has brought its stack to the cell announced at its *)
(* start, the planned one unless the points fell short                     *)
(* (GameSession.cpp:332-346, 430-437).                                     *)
THEOREM MovementsArrive == SessionSpec => ArrivesWherePromised
<1> DEFINE Arrives ==
             mode = "Moving" /\ mode' # "Moving" =>
               LET place == stacks'[execution.stack].position
               IN /\ place = execution.route.destination
                  /\ ~execution.limited => place = execution.requested
                  /\ mode' = "StackSelected" /\ selected' = execution.stack
<1>1. SessionInv /\ [SessionNext]_sessionVars => [Arrives]_sessionVars
  BY StepArrives
<1>2. ArrivesWherePromised <=> [][Arrives]_sessionVars
  BY DEF ArrivesWherePromised
<1> QED
  BY <1>1, <1>2, SessionInvariant, PTL DEF SessionSpec

-----------------------------------------------------------------------------
(* What a stack enters, it may enter, and it pays for it.                  *)
LEMMA StepIsWalk ==
  ASSUME SessionInv, execution # None, CommitStep, baseline' = baseline
  PROVE  JourneyOf!JourneyNext
<1> DEFINE cell == NextStep.cell
           place == stacks[selected].position
           m == stacks[selected].move
           cost == NextStep.cost
<1>1. /\ execution.stack = selected /\ selected \in OnMap /\ MayTravel(selected)
      /\ cell \in Cells /\ cost \in Nat /\ cost > 0 /\ Adjacent(place, cell) /\ ~Blocked(selected, cell)
      /\ cost = PriceFor(selected, cell) /\ cost <= m /\ m \in Int
  BY StepHolds
<1>2. selected \in Stack /\ stacks \in [Stack -> [position : Int \X Int, move : Int]]
  BY <1>1, NoneIsNoStack, TypeFacts
<1>3. stacks' = [stacks EXCEPT ![selected] = [position |-> cell, move |-> m - cost]]
  BY <1>1 DEF CommitStep, CommittedStack
<1>4. JourneyOf!Price(selected, cell) = cost /\ cost # Impassable
  <2>1. JourneyOf!Price(selected, cell) = PriceFor(selected, cell)
    <3>1. PriceFor(selected, cell) = GroundCost(Leader[selected], Terrain.ground[cell], cell \in Terrain.road)
      BY <1>1 DEF PriceFor
    <3>2. \A profile, ground, road : JourneyOf!GroundCost(profile, ground, road) = GroundCost(profile, ground, road)
      BY Zenon DEF JourneyOf!GroundCost, GroundCost, JourneyOf!Impassable, Impassable
    <3> QED
      BY <3>1, <3>2 DEF JourneyOf!Price
  <2>2. cost # Impassable
    BY <1>1 DEF Impassable
  <2> QED
    BY <2>1, <2>2, <1>1
<1>5. JourneyOf!Adjacent(place, cell) /\ place # cell
  BY <1>1 DEF JourneyOf!Adjacent, Adjacent, JourneyOf!Chebyshev, Chebyshev, JourneyOf!Abs, Abs
<1> HIDE DEF cell, m, cost
<1>6. stacks'[selected].move = m - cost /\ m - cost >= 0
  BY <1>1, <1>2, <1>3
<1>7. JourneyOf!Free(cell)
  BY <1>1, <1>5 DEF JourneyOf!Free, JourneyOf!Cells, Cells, Blocked
<1>8. stacks' = [stacks EXCEPT ![selected] = [position |-> cell, move |-> stacks'[selected].move]]
  BY <1>3, <1>6
<1>9. JourneyOf!Walk(selected, cell)
  BY <1>4, <1>5, <1>6, <1>7, <1>8 DEF JourneyOf!Walk, JourneyOf!Impassable, Impassable, m
<1> QED
  BY <1>1, <1>9 DEF JourneyOf!JourneyNext, JourneyOf!Cells, Cells

LEMMA PointsAreRefill ==
  ASSUME SessionInv, NEW points, ChangeSelectedMovementPoints(points), NEW p,
         selected \in Stack => points[selected] = p, p \in {baseline[selected], FreeMovementPoints}
  PROVE  JourneyOf!JourneyNext \/ UNCHANGED <<stacks, baseline>>
<1>1. baseline' = baseline
  BY DEF ChangeSelectedMovementPoints
<1>2. CASE selected = NoStack \/ selected \notin OnMap
  BY <1>1, <1>2 DEF ChangeSelectedMovementPoints
<1>3. CASE selected # NoStack /\ selected \in OnMap
  <2>1. stacks' = [stacks EXCEPT ![selected].move = points[selected]] /\ selected \in Stack
    BY <1>3, NoneIsNoStack DEF ChangeSelectedMovementPoints
  <2>2. JourneyOf!Refill(selected)
    BY <2>1 DEF JourneyOf!Refill
  <2> QED
    BY <1>1, <1>3, <2>2 DEF JourneyOf!JourneyNext
<1> QED
  BY <1>2, <1>3

LEMMA StepIsJourney ==
  ASSUME SessionInv, [SessionNext]_sessionVars
  PROVE  [JourneyOf!JourneyNext]_<<stacks, baseline>>
<1>1. CASE UNCHANGED sessionVars \/ RejectBusy \/ ClearSelection \/ Confirm
           \/ \E s \in Stack \cup {UnknownStack} : Select(s)
           \/ \E destination \in Destination : Plan(destination)
  BY <1>1 DEF sessionVars, RejectBusy, ClearSelection, Confirm, Select, Plan
<1>2. CASE AdvanceStep
  <2>1. CASE mode # "Moving" \/ execution = None
    BY <1>2, <2>1 DEF AdvanceStep
  <2>2. CASE ~(mode # "Moving" \/ execution = None)
    <3>1. CommitStep /\ baseline' = baseline
      BY <1>2, <2>2, StepHolds DEF AdvanceStep
    <3> QED
      BY <2>2, <3>1, StepIsWalk
  <2> QED
    BY <2>1, <2>2
<1>3. CASE DebugReset
  BY <1>3, PointsAreRefill DEF DebugReset
<1>4. CASE DebugFree
  BY <1>4, PointsAreRefill DEF DebugFree
<1> QED
  BY <1>1, <1>2, <1>3, <1>4 DEF SessionNext

(* The world only changes as module Journey allows (GameSession.cpp:422-   *)
(* 426, 571), whatever commands are given: every cell a stack enters is a  *)
(* free neighbour of its own that its leader may enter, paid for from the  *)
(* points it had.                                                          *)
THEOREM SessionImplementsJourney == SessionSpec => ImplementsJourney
<1>1. SessionInit => JourneyOf!JourneyInit
  BY DEF SessionInit, JourneyOf!JourneyInit, Positive
<1>2. SessionInv /\ [SessionNext]_sessionVars => [JourneyOf!JourneyNext]_<<stacks, baseline>>
  BY StepIsJourney
<1> QED
  BY <1>1, <1>2, SessionInvariant, PTL DEF SessionSpec, ImplementsJourney, JourneyOf!JourneySpec
-----------------------------------------------------------------------------
(***************************************************************************)
(* The screen: what it does to the session are commands of the session,    *)
(* and the film it plays stays the one of the movement.                    *)
(***************************************************************************)
FilmInv ==
  /\ front \in {"screen", "commands"}
  /\ front = "commands" => film = NoFilm
  /\ film = NoFilm => remaining = 0
  /\ FilmAndSessionAgree

ScreenInv == SessionInv /\ FilmInv

LEMMA ClickIsCommand == Click => SessionNext
<1> SUFFICES ASSUME Click PROVE SessionNext
  OBVIOUS
<1>1. CASE \E s \in OnMap : ClickStack(s)
  BY <1>1, NoneIsNoStack DEF ClickStack, SessionNext
<1>2. CASE \E c \in Cells : ClickCell(c)
  BY <1>2 DEF ClickCell, SessionNext, Destination
<1> QED
  BY <1>1, <1>2 DEF Click

(* Every step of the screen is a command of the session or leaves it.      *)
LEMMA StepIsCommand == [ScreenNext]_screenVars => [SessionNext]_sessionVars
<1> SUFFICES ASSUME [ScreenNext]_screenVars PROVE [SessionNext]_sessionVars
  OBVIOUS
<1>1. CASE Command
  BY <1>1 DEF Command
<1>2. CASE Click
  BY <1>2, ClickIsCommand
<1>3. CASE DebugPanel
  BY <1>3 DEF DebugPanel, SessionNext
<1>4. CASE \E delta \in Deltas : Frame(delta)
  BY <1>4 DEF Frame
<1>5. CASE ShowPart
  BY <1>5 DEF ShowPart
<1>6. CASE CommitSegment
  BY <1>6 DEF CommitSegment, SessionNext
<1>7. CASE UNCHANGED screenVars
  BY <1>7 DEF screenVars
<1> QED
  BY <1>1, <1>2, <1>3, <1>4, <1>5, <1>6, <1>7 DEF ScreenNext

(* What the screen makes of a session is a behaviour of the session, so    *)
(* the theorems above hold of it: plans hold, movements arrive, and the    *)
(* world changes as Journey allows.                                        *)
THEOREM ScreenDrivesTheSession == ScreenSpec => SessionSpec
<1>1. ScreenInit => SessionInit
  BY DEF ScreenInit
<1> QED
  BY <1>1, StepIsCommand, PTL DEF ScreenSpec, SessionSpec

-----------------------------------------------------------------------------
(* The film of a movement on its course, at the segment of its next step.  *)
FilmOnCourse ==
  LET f == FilmOf(execution)
      n == execution.next
  IN  /\ f # NoFilm /\ f.stack = selected /\ selected \in OnMap
      /\ n \in 1 .. Len(f.segments) /\ n \in DOMAIN f.segments /\ n \in Nat
      /\ Len(f.segments) = Len(execution.route.steps) /\ Len(f.segments) \in Nat
      /\ f.segments[n].from = stacks[selected].position
      /\ f.segments[n].to = NextStep.cell

LEMMA FilmFacts == SessionInv /\ execution # None => FilmOnCourse
<1> SUFFICES ASSUME SessionInv, execution # None PROVE FilmOnCourse
  OBVIOUS
<1> DEFINE f == FilmOf(execution)
           n == execution.next
           r == execution.route
           Part(i) == [from |-> PreviousCell(r.start, r.steps, i), to |-> r.steps[i].cell]
<1>1. /\ execution.stack = selected /\ selected \in OnMap /\ NextStep = r.steps[n]
      /\ n \in 1 .. Len(r.steps) /\ DOMAIN r.steps = 1 .. Len(r.steps) /\ Len(r.steps) \in Nat
  BY StepHolds
<1>2. stacks[selected].position = PreviousCell(r.start, r.steps, n)
  BY DEF SessionInv, MovementIsOnCourse
<1>3. f.stack = selected /\ f.segments = [i \in 1 .. Len(r.steps) |-> Part(i)]
  BY <1>1 DEF FilmOf
<1>4. f # NoFilm
  <2>1. NoFilm.stack = NoStack /\ selected # NoStack
    BY <1>1, NoneIsNoStack DEF NoFilm
  <2> QED
    BY <2>1, <1>3
<1> HIDE DEF f, r
<1>5. Len(f.segments) = Len(r.steps)
  BY <1>1, <1>3
<1>6. f.segments[n] = Part(n)
  BY <1>1, <1>3
<1> QED
  BY <1>1, <1>2, <1>3, <1>4, <1>5, <1>6 DEF f, r, FilmOnCourse

LEMMA FilmStaysOnCourse == (SessionInv /\ execution # None)' => FilmOnCourse'
BY FilmFacts, PTL

LEMMA ConfirmStarts ==
  ASSUME SessionInv, Confirm
  PROVE  \/ reply'.event = "MovementStarted" /\ mode' = "Moving" /\ execution'.next = 1
         \/ reply'.event # "MovementStarted" /\ mode' # "Moving"
<1> DEFINE refreshed == PlannedMovement(planned.stack, Leader[planned.stack],
                                        RouteTo(planned.stack, planned.route.destination).route)
<1>1. mode # "Moving"
  BY DEF Confirm
<1>2. CASE selected = NoStack \/ planned = None
  BY <1>1, <1>2 DEF Confirm, Reject, movementVars
<1>3. CASE ~(selected = NoStack \/ planned = None) /\ ConfirmRefusal # "None"
  BY <1>3 DEF Confirm, Reject, ResetIdle, DropPlan, Become
<1>4. CASE ~(selected = NoStack \/ planned = None) /\ ConfirmRefusal = "None"
  <2>1. Confirmed(refreshed)
    BY <1>4 DEF Confirm
  <2> HIDE DEF refreshed
  <2>2. CASE Become("Moving", selected, None, Execution(refreshed)) /\ Reply("MovementStarted")
    BY <2>2 DEF Become, Reply, Execution
  <2> QED
    BY <1>1, <2>1, <2>2 DEF Confirmed, Become, Reply, Reject, ResetSelected
<1> QED
  BY <1>2, <1>3, <1>4

(* A click starts a movement, or leaves things as they stand.              *)
LEMMA ClickFacts ==
  ASSUME SessionInv, Click
  PROVE  \/ reply'.event = "MovementStarted" /\ mode # "Moving" /\ mode' = "Moving" /\ execution'.next = 1
         \/ reply'.event # "MovementStarted" /\ mode # "Moving" /\ mode' # "Moving"
         \/ reply'.event # "MovementStarted" /\ UNCHANGED <<mode, stacks, execution>>
<1>1. CASE RejectBusy
  BY <1>1 DEF RejectBusy, Reject, movementVars
<1>2. ASSUME NEW s, Select(s)
      PROVE  reply'.event # "MovementStarted" /\ mode # "Moving" /\ mode' # "Moving"
  BY <1>2 DEF Select, Reject, Reply, Become, movementVars
<1>3. ASSUME NEW c, Plan(c)
      PROVE  reply'.event # "MovementStarted" /\ mode # "Moving" /\ mode' # "Moving"
  BY <1>3 DEF Plan, Reject, Reply, Become
<1>4. CASE Confirm
  BY <1>4, ConfirmStarts DEF Confirm
<1> QED
  BY <1>1, <1>2, <1>3, <1>4 DEF Click, ClickStack, ClickCell

LEMMA ClickKeepsInv ==
  ASSUME ScreenInv, Click
  PROVE  FilmInv'
<1>1. SessionInv /\ SessionInv'
  BY ClickIsCommand, NextKeepsInv DEF ScreenInv
<1>2. /\ front = "screen" /\ remaining = 0 /\ fault = "None"
      /\ front' = "screen" /\ remaining' = 0 /\ fault' = "None"
  BY DEF Click, Between
<1>3. elapsed \in 0 .. SegmentDuration - 1 /\ (film # NoFilm <=> mode = "Moving")
  BY <1>2 DEF ScreenInv, FilmInv, FilmAndSessionAgree, FilmShowsTheMovement, ScreenTypeOK
<1>4. CASE reply'.event = "MovementStarted" /\ mode' = "Moving" /\ execution'.next = 1
  <2>1. film' = FilmOf(execution') /\ segment' = 1 /\ elapsed' = 0
    BY <1>4 DEF Click
  <2>2. (execution # None)'
    BY <1>1, <1>4 DEF SessionInv, ModeIsRight
  <2>3. /\ film' # NoFilm /\ film'.stack = selected' /\ selected' \in OnMap
        /\ segment' \in DOMAIN film'.segments
        /\ Shown'.from = stacks'[selected'].position
    BY <1>1, <1>4, <2>1, <2>2, FilmStaysOnCourse DEF Shown, FilmOnCourse
  <2>4. 0 \in 0 .. SegmentDuration - 1
    BY ScreenAssumption
  <2>5. ScreenTypeOK'
    BY <1>2, <2>1, <2>3, <2>4 DEF ScreenTypeOK
  <2>6. FilmShowsTheMovement'
    BY <1>4, <2>1, <2>3, <2>5 DEF FilmShowsTheMovement
  <2> QED
    BY <1>2, <2>3, <2>6 DEF FilmInv, FilmAndSessionAgree, NothingThrows
<1>5. CASE reply'.event # "MovementStarted" /\ mode # "Moving" /\ mode' # "Moving"
  <2>1. film' = NoFilm /\ elapsed' = elapsed
    BY <1>3, <1>5 DEF Click
  <2> QED
    BY <1>2, <1>3, <1>5, <2>1 DEF FilmInv, FilmAndSessionAgree, FilmShowsTheMovement, ScreenTypeOK, NothingThrows
<1>6. CASE reply'.event # "MovementStarted" /\ UNCHANGED <<mode, stacks, execution>>
  <2>1. UNCHANGED <<film, segment, elapsed>>
    BY <1>6 DEF Click
  <2> QED
    BY <1>2, <1>3, <1>6, <2>1
       DEF ScreenInv, FilmInv, FilmAndSessionAgree, FilmShowsTheMovement, ScreenTypeOK, NothingThrows, Shown, OnMap
<1> QED
  BY <1>1, <1>4, <1>5, <1>6, ClickFacts

LEMMA DebugKeepsFilm ==
  ASSUME ScreenInv, DebugPanel
  PROVE  FilmInv'
<1>1. UNCHANGED filmVars /\ front = "screen" /\ remaining = 0 /\ fault = "None"
  BY DEF DebugPanel, Between
<1>2. CASE RejectBusy
  <2>1. UNCHANGED <<stacks, mode, execution>>
    BY <1>2 DEF RejectBusy, movementVars
  <2> QED
    BY <1>1, <2>1 DEF ScreenInv, FilmInv, FilmAndSessionAgree, FilmShowsTheMovement, ScreenTypeOK, NothingThrows,
                      Shown, filmVars
<1>3. ASSUME NEW points, ChangeSelectedMovementPoints(points)
      PROVE  FilmInv'
  <2>1. mode # "Moving" /\ mode' # "Moving"
    BY <1>3 DEF ChangeSelectedMovementPoints, ResetIdle, Become, movementVars
  <2> QED
    BY <1>1, <2>1 DEF ScreenInv, FilmInv, FilmAndSessionAgree, FilmShowsTheMovement, ScreenTypeOK, NothingThrows,
                      filmVars
<1> QED
  BY <1>2, <1>3 DEF DebugPanel, DebugReset, DebugFree

(* The time of a frame that is short of a segment.                         *)
LEMMA TimeFacts ==
  ASSUME FilmInv
  PROVE  /\ SegmentDuration \in Nat /\ SegmentDuration > 0
         /\ elapsed \in Nat /\ elapsed < SegmentDuration /\ remaining \in Nat
         /\ Left \in Nat /\ Left > 0 /\ elapsed + Left = SegmentDuration
BY ScreenAssumption DEF FilmInv, FilmAndSessionAgree, FilmShowsTheMovement, ScreenTypeOK, Left

(* A segment shown in full: its step is committed as the film shows it.    *)
LEMMA SegmentFacts ==
  ASSUME ScreenInv, CommitSegment
  PROVE  /\ SessionInv' /\ CommitMatches /\ reply'.event # "Interrupted"
         /\ film.stack \in OnMap /\ stacks'[film.stack].position = Shown.to
         /\ segment \in 1 .. Len(film.segments) /\ Len(film.segments) \in Nat
         /\ segment = Len(film.segments) => mode' # "Moving"
         /\ segment # Len(film.segments) =>
              /\ mode' = "Moving" /\ execution' # None /\ execution'.next = segment + 1
              /\ FilmOf(execution') = film
         /\ film # NoFilm /\ front = "screen" /\ fault = "None"
<1>1. film # NoFilm /\ front = "screen" /\ fault = "None"
  <2>1. remaining # 0
    <3>1. remaining \in Nat /\ Left \in Nat /\ Left > 0 /\ remaining >= Left
      BY TimeFacts DEF ScreenInv, CommitSegment
    <3> QED
      BY <3>1
  <2> QED
    BY <2>1 DEF ScreenInv, FilmInv, CommitSegment
<1>2. /\ SessionInv /\ mode = "Moving" /\ film = FilmOf(execution) /\ segment = execution.next
  BY <1>1 DEF ScreenInv, FilmInv, FilmAndSessionAgree, FilmShowsTheMovement
<1>3. execution # None
  BY <1>2, TypeFacts
<1>4. /\ film.stack = selected /\ selected \in OnMap /\ segment \in 1 .. Len(film.segments) /\ segment \in Nat
      /\ Len(film.segments) = Len(execution.route.steps) /\ Len(film.segments) \in Nat
      /\ Shown.from = stacks[selected].position /\ Shown.to = NextStep.cell
  BY <1>2, <1>3, FilmFacts DEF Shown, FilmOnCourse
<1>5. SessionInv'
  BY <1>2, NextKeepsInv DEF CommitSegment, SessionNext
<1>6. CommitStep /\ execution.stack = selected /\ selected \in Stack
  BY <1>2, <1>3, StepHolds, NoneIsNoStack DEF CommitSegment, AdvanceStep
<1>7. stacks' = [stacks EXCEPT ![selected] = [position |-> NextStep.cell, move |-> stacks[selected].move - NextStep.cost]]
  BY <1>6 DEF CommitStep, CommittedStack
<1>8. stacks'[selected].position = NextStep.cell
  BY <1>2, <1>6, <1>7, TypeFacts
<1>9. reply'.event # "Interrupted"
  BY <1>5 DEF SessionInv, MovementIsNotInterrupted
<1>10. CommittedExecution.next = segment + 1 /\ CommittedExecution.route = execution.route
       /\ CommittedExecution.stack = execution.stack
  <2>1. /\ "next" \in DOMAIN execution /\ "spent" \in DOMAIN execution /\ "route" \in DOMAIN execution
        /\ "stack" \in DOMAIN execution
    BY <1>2, <1>3 DEF SessionInv, MovementIsOnCourse
  <2> QED
    BY <2>1, <1>2 DEF CommittedExecution
<1> DEFINE done == CommittedExecution.next > Len(execution.route.steps)
           arrived == /\ NextStep.cell = execution.route.destination
                      /\ CommittedExecution.spent = execution.route.total
<1>11. done <=> segment = Len(film.segments)
  BY <1>4, <1>10
<1> HIDE DEF done, arrived
<1>12. CASE done
  <2>1. arrived
    BY <1>6, <1>9, <1>12 DEF CommitStep, Interrupt, done, arrived
  <2>2. ResetSelected /\ Reply("MovementCompleted")
    BY <2>1, <1>6, <1>12 DEF CommitStep, done, arrived
  <2>3. mode' # "Moving" /\ reply'.event = "MovementCompleted"
    BY <2>2 DEF ResetSelected, Become, Reply
  <2> QED
    BY <2>3, <1>1, <1>2, <1>4, <1>5, <1>6, <1>8, <1>9, <1>11, <1>12 DEF CommitMatches
<1>13. CASE ~done
  <2>1. Become(mode, selected, planned, CommittedExecution) /\ Reply("StepCommitted")
    BY <1>6, <1>13 DEF CommitStep, done
  <2>2. mode' = "Moving" /\ execution' = CommittedExecution /\ reply'.event = "StepCommitted"
    BY <2>1, <1>2 DEF Become, Reply
  <2>3. FilmOf(execution') = film
    BY <2>2, <1>2, <1>10 DEF FilmOf
  <2>4. execution' # None
    BY <2>2, <1>5 DEF SessionInv, ModeIsRight
  <2> QED
    BY <2>2, <2>3, <2>4, <1>1, <1>2, <1>4, <1>5, <1>6, <1>8, <1>9, <1>10, <1>11, <1>13 DEF CommitMatches
<1> QED
  BY <1>12, <1>13

LEMMA SegmentKeepsInv ==
  ASSUME ScreenInv, CommitSegment
  PROVE  FilmInv'
<1>1. /\ SessionInv' /\ CommitMatches /\ reply'.event # "Interrupted"
      /\ film.stack \in OnMap /\ stacks'[film.stack].position = Shown.to
      /\ segment \in 1 .. Len(film.segments) /\ Len(film.segments) \in Nat
      /\ film # NoFilm /\ front = "screen" /\ fault = "None"
  BY SegmentFacts
<1>2. front' = "screen" /\ 0 \in 0 .. SegmentDuration - 1
  BY <1>1, ScreenAssumption DEF CommitSegment
<1>3. CASE segment = Len(film.segments)
  <2>1. Settle(Shown.to)
    BY <1>1, <1>3 DEF CommitSegment
  <2>2. film' = NoFilm /\ elapsed' = 0 /\ remaining' = 0 /\ fault' = "None"
    BY <2>1, <1>1 DEF Settle, StopFilm
  <2>3. mode' # "Moving"
    BY <1>3, SegmentFacts
  <2> QED
    BY <1>2, <2>2, <2>3 DEF FilmInv, FilmAndSessionAgree, FilmShowsTheMovement, ScreenTypeOK, NothingThrows
<1>4. CASE segment # Len(film.segments)
  <2>1. segment' = segment + 1 /\ elapsed' = 0 /\ remaining' = Carried /\ film' = film /\ fault' = "None"
    BY <1>1, <1>4 DEF CommitSegment
  <2>2. mode' = "Moving" /\ execution' # None /\ execution'.next = segment + 1 /\ FilmOf(execution') = film
    BY <1>4, SegmentFacts
  <2>3. Carried \in Nat
    <3>1. remaining \in Nat /\ Left \in Nat /\ remaining >= Left
      BY TimeFacts DEF ScreenInv, CommitSegment
    <3> QED
      BY <3>1 DEF Carried
  <2>4. /\ film'.stack = selected' /\ selected' \in OnMap /\ segment' \in DOMAIN film'.segments
        /\ Shown'.from = stacks'[selected'].position
    BY <1>1, <2>1, <2>2, FilmStaysOnCourse DEF Shown, FilmOnCourse
  <2>5. ScreenTypeOK'
    BY <1>2, <2>1, <2>3, <2>4 DEF ScreenTypeOK
  <2>6. FilmShowsTheMovement'
    BY <1>1, <2>1, <2>2, <2>4, <2>5 DEF FilmShowsTheMovement
  <2> QED
    BY <1>1, <1>2, <2>1, <2>6 DEF FilmInv, FilmAndSessionAgree, NothingThrows
<1> QED
  BY <1>3, <1>4

LEMMA ScreenKeepsInv == ScreenInv /\ [ScreenNext]_screenVars => ScreenInv'
<1> SUFFICES ASSUME ScreenInv, [ScreenNext]_screenVars PROVE ScreenInv'
  OBVIOUS
<1>1. SessionInv'
  BY StepIsCommand, NextKeepsInv DEF ScreenInv
<1>2. CASE Command
  <2>1. UNCHANGED filmVars /\ front = "commands" /\ film = NoFilm
    BY <1>2 DEF Command, ScreenInv, FilmInv
  <2>2. FilmInv'
    BY <2>1 DEF ScreenInv, FilmInv, FilmAndSessionAgree, FilmShowsTheMovement, ScreenTypeOK, NothingThrows, filmVars
  <2> QED
    BY <1>1, <2>2 DEF ScreenInv
<1>3. CASE Click
  BY <1>1, <1>3, ClickKeepsInv DEF ScreenInv
<1>4. CASE DebugPanel
  BY <1>1, <1>4, DebugKeepsFilm DEF ScreenInv
<1>5. ASSUME NEW delta \in Deltas, Frame(delta) PROVE ScreenInv'
  <2>1. /\ remaining' = delta /\ delta \in Nat /\ film # NoFilm
        /\ UNCHANGED <<stacks, mode, execution, film, segment, elapsed, fault, front>>
    BY <1>5, ScreenAssumption DEF Frame, sessionVars
  <2>2. FilmInv'
    BY <2>1 DEF ScreenInv, FilmInv, FilmAndSessionAgree, FilmShowsTheMovement, ScreenTypeOK, NothingThrows, Shown
  <2> QED
    BY <1>1, <2>2 DEF ScreenInv
<1>6. CASE ShowPart
  <2>1. /\ remaining' = 0 /\ elapsed' = elapsed + remaining
        /\ UNCHANGED <<stacks, mode, execution, film, segment, fault, front>>
    BY <1>6 DEF ShowPart, sessionVars
  <2>2. elapsed' \in 0 .. SegmentDuration - 1
    BY <2>1, <1>6, TimeFacts DEF ScreenInv, ShowPart, Left
  <2>3. FilmInv'
    BY <2>1, <2>2 DEF ScreenInv, FilmInv, FilmAndSessionAgree, FilmShowsTheMovement, ScreenTypeOK, NothingThrows, Shown
  <2> QED
    BY <1>1, <2>3 DEF ScreenInv
<1>7. CASE CommitSegment
  BY <1>1, <1>7, SegmentKeepsInv DEF ScreenInv
<1>8. CASE UNCHANGED screenVars
  <2>1. UNCHANGED <<stacks, mode, execution, film, segment, elapsed, remaining, fault, front>>
    BY <1>8 DEF screenVars, sessionVars, filmVars
  <2>2. FilmInv'
    BY <2>1 DEF ScreenInv, FilmInv, FilmAndSessionAgree, FilmShowsTheMovement, ScreenTypeOK, NothingThrows, Shown
  <2> QED
    BY <1>1, <2>2 DEF ScreenInv
<1> QED
  BY <1>2, <1>3, <1>4, <1>5, <1>6, <1>7, <1>8 DEF ScreenNext

LEMMA ScreenInitHasInv == ScreenInit => ScreenInv
<1> SUFFICES ASSUME ScreenInit PROVE ScreenInv
  OBVIOUS
<1>1. SessionInv
  BY InitHasInv DEF ScreenInit
<1>2. /\ film = NoFilm /\ elapsed = 0 /\ remaining = 0 /\ fault = "None" /\ front \in {"screen", "commands"}
      /\ mode = "Idle"
  BY DEF ScreenInit, SessionInit
<1>3. 0 \in 0 .. SegmentDuration - 1
  BY ScreenAssumption
<1>4. FilmInv
  BY <1>2, <1>3 DEF FilmInv, FilmAndSessionAgree, FilmShowsTheMovement, ScreenTypeOK, NothingThrows
<1> QED
  BY <1>1, <1>4 DEF ScreenInv

(* The inductive invariant of the screen: that of the session, and a film  *)
(* that shows what the session has left to do.                             *)
THEOREM ScreenInvariant == ScreenSpec => []ScreenInv
BY ScreenInitHasInv, ScreenKeepsInv, PTL DEF ScreenSpec

(* The film and the session stay together, so that none of the checks of   *)
(* update and of the settlement throws                                     *)
(* (adventure_movement_presentation_controller.cpp:230-257), however the   *)
(* player clicks and however the frames cut the time.                      *)
THEOREM TheFilmFollows == ScreenSpec => []FilmAndSessionAgree
<1>1. ScreenInv => FilmAndSessionAgree
  BY DEF ScreenInv, FilmInv
<1> QED
  BY <1>1, ScreenInvariant, PTL

(* A film plays one of its segments.                                       *)
LEMMA SegmentIsNumber ==
  ASSUME ScreenInv, film # NoFilm
  PROVE  segment \in Nat
<1>1. front = "screen" /\ fault = "None"
  BY DEF ScreenInv, FilmInv, FilmAndSessionAgree, NothingThrows
<1>2. SessionInv /\ mode = "Moving" /\ film = FilmOf(execution) /\ segment = execution.next
  BY <1>1 DEF ScreenInv, FilmInv, FilmAndSessionAgree, FilmShowsTheMovement
<1> QED
  BY <1>2, TypeFacts, FilmFacts DEF FilmOnCourse

LEMMA StepKeepsTime ==
  ASSUME ScreenInv, [ScreenNext]_screenVars, film # NoFilm, film' # NoFilm, remaining > 0
  PROVE  \/ UNCHANGED screenVars
         \/ SegmentDuration * segment + elapsed + remaining
              = SegmentDuration * segment' + elapsed' + remaining'
<1>1. front # "commands" /\ remaining # 0 /\ SegmentDuration \in Nat /\ elapsed \in Nat /\ remaining \in Nat
  BY TimeFacts DEF ScreenInv, FilmInv
<1>2. CASE ShowPart
  <2>1. segment' = segment /\ elapsed' = elapsed + remaining /\ remaining' = 0
    BY <1>2 DEF ShowPart
  <2> DEFINE shown == SegmentDuration * segment
  <2>2. segment \in Nat
    BY SegmentIsNumber DEF ScreenInv
  <2>3. shown \in Nat /\ SegmentDuration * segment' = shown
    BY <1>1, <2>1, <2>2
  <2> HIDE DEF shown
  <2>4. shown + elapsed + remaining = shown + elapsed' + remaining'
    BY <1>1, <2>1, <2>3
  <2> QED
    BY <2>3, <2>4 DEF shown
<1>3. CASE CommitSegment
  <2>1. /\ CommitMatches /\ reply'.event # "Interrupted"
        /\ segment \in 1 .. Len(film.segments) /\ Len(film.segments) \in Nat
    BY <1>3, SegmentFacts
  <2>2. segment # Len(film.segments)
    BY <1>3, <2>1 DEF CommitSegment, Settle, StopFilm
  <2>3. segment' = segment + 1 /\ elapsed' = 0 /\ remaining' = Carried
    BY <1>3, <2>1, <2>2 DEF CommitSegment
  <2> DEFINE shown == SegmentDuration * segment
  <2>4. segment \in Nat
    BY <2>1
  <2>5. shown \in Nat /\ SegmentDuration * segment' = shown + SegmentDuration
    BY <1>1, <2>3, <2>4
  <2> HIDE DEF shown
  <2>6. shown + elapsed + remaining = (shown + SegmentDuration) + elapsed' + remaining'
    BY <1>1, <2>3, <2>5 DEF Carried, Left
  <2> QED
    BY <2>5, <2>6 DEF shown
<1> QED
  BY <1>1, <1>2, <1>3 DEF ScreenNext, Command, Click, DebugPanel, Frame, Between

(* However the frames cut the time, a step is committed only after its     *)
(* segment was shown in full, and no time of an update is lost before the  *)
(* last segment (adventure_movement_presentation_controller.cpp:176-188).  *)
THEOREM TimeIsAlwaysKept == ScreenSpec => TimeIsKept
<1> DEFINE KeptNow ==
             film # NoFilm /\ film' # NoFilm /\ remaining > 0 =>
               SegmentDuration * segment + elapsed + remaining
                 = SegmentDuration * segment' + elapsed' + remaining'
<1>1. ScreenInv /\ [ScreenNext]_screenVars => [KeptNow]_screenVars
  BY StepKeepsTime
<1>2. TimeIsKept <=> [][KeptNow]_screenVars
  BY DEF TimeIsKept
<1> HIDE DEF KeptNow
<1> QED
  BY <1>1, <1>2, ScreenInvariant, PTL DEF ScreenSpec
-----------------------------------------------------------------------------
(* The screens: what lies over what, at most one transition that fits them *)
(* and is applied before anything else, and the session of a battle, which *)
(* is there exactly when its screen is.                                    *)
ScreensStand ==
  screens \in {<<"Startup">>, <<"Adventure">>, <<"Adventure", "StackInfo">>, <<"Adventure", "Battle">>}

TransitionFits ==
  \/ transitions = << >>
  \/ /\ at \in {"applyInput", "applyUpdate"}
     /\ \/ transitions = <<"Adventure">> /\ screens = <<"Startup">>
        \/ transitions \in {<<"StackInfo">>, <<"Battle">>} /\ screens = <<"Adventure">>
        \/ transitions = <<"Pop">> /\ Len(screens) = 2

BattleHasScreen ==
  IF TopScreen = "Battle" THEN "phase" \in DOMAIN battle /\ battle.phase # "None"
                          ELSE battle = NoBattle

OverlayInv == ScreensStand /\ TransitionFits /\ BattleHasScreen

LEMMA TopsOfScreens ==
  /\ screens = <<"Startup">> => TopScreen = "Startup"
  /\ screens = <<"Adventure">> => TopScreen = "Adventure"
  /\ screens = <<"Adventure", "StackInfo">> => TopScreen = "StackInfo"
  /\ screens = <<"Adventure", "Battle">> => TopScreen = "Battle"
BY DEF TopScreen

(* Steps that touch neither screens nor transitions nor the battle.        *)
LEMMA OverlaysStay ==
  ASSUME OverlayInv, UNCHANGED <<screens, transitions, battle>>,
         at \in {"applyInput", "applyUpdate"} => at' = at \/ transitions = << >>
  PROVE  OverlayInv'
BY DEF OverlayInv, ScreensStand, TransitionFits, BattleHasScreen, TopScreen

LEMMA FrontOfTwo == ASSUME NEW x, NEW y PROVE Front(<<x, y>>) = <<x>>
<1> DEFINE S == {x, y}
           s == <<x, y>>
           t == SubSeq(s, 1, 1)
<1>1. s \in Seq(S) /\ Len(s) = 2 /\ s[1] = x
  OBVIOUS
<1> HIDE DEF s, S
<1>2. t = [i \in 1 .. 1 |-> s[i]]
  BY <1>1
<1>3. <<x>> = [i \in 1 .. 1 |-> x]
  OBVIOUS
<1>4. [i \in 1 .. 1 |-> s[i]] = [i \in 1 .. 1 |-> x]
  BY <1>1
<1>5. t = <<x>>
  BY <1>2, <1>3, <1>4, Zenon
<1>6. Len(s) - 1 = 1
  BY <1>1
<1> QED
  BY <1>5, <1>6, Zenon DEF s, Front

LEMMA ApplyKeepsOverlays ==
  ASSUME OverlayInv, ApplyTransition
  PROVE  OverlayInv'
<1>1. transitions # << >> /\ Apply(Head(transitions)) /\ transitions' = Tail(transitions)
  BY DEF ApplyTransition
<1>2. CASE transitions = <<"Adventure">> /\ screens = <<"Startup">>
  <2>1. screens' = <<"Adventure">> /\ battle' = battle /\ transitions' = << >>
    BY <1>1, <1>2 DEF Apply, SwitchToAdventure
  <2>2. battle = NoBattle
    BY <1>2 DEF OverlayInv, BattleHasScreen, TopScreen
  <2> QED
    BY <2>1, <2>2 DEF OverlayInv, ScreensStand, TransitionFits, BattleHasScreen, TopScreen
<1>3. CASE transitions = <<"StackInfo">> /\ screens = <<"Adventure">>
  <2>1. screens' = <<"Adventure", "StackInfo">> /\ battle' = battle /\ transitions' = << >>
    BY <1>1, <1>3 DEF Apply, PushInfo
  <2>2. battle = NoBattle
    BY <1>3 DEF OverlayInv, BattleHasScreen, TopScreen
  <2> QED
    BY <2>1, <2>2 DEF OverlayInv, ScreensStand, TransitionFits, BattleHasScreen, TopScreen
<1>4. CASE transitions = <<"Battle">> /\ screens = <<"Adventure">>
  <2>1. screens' = <<"Adventure", "Battle">> /\ battle' = NewSession(NoBattle) /\ transitions' = << >>
    BY <1>1, <1>4 DEF Apply, PushBattle
  <2>2. "phase" \in DOMAIN battle' /\ battle'.phase # "None"
    BY <2>1 DEF NewSession, NoBattle
  <2> QED
    BY <2>1, <2>2 DEF OverlayInv, ScreensStand, TransitionFits, BattleHasScreen, TopScreen
<1>5. CASE transitions = <<"Pop">> /\ Len(screens) = 2
  <2>1. Pop /\ transitions' = << >>
    BY <1>1, <1>5 DEF Apply
  <2>2. screens \in {<<"Adventure", "StackInfo">>, <<"Adventure", "Battle">>}
    BY <1>5 DEF OverlayInv, ScreensStand
  <2>3. screens' = <<"Adventure">>
    <3>1. screens' = Front(screens)
      BY <2>1, <2>2 DEF Pop
    <3> QED
      BY <2>2, <3>1, FrontOfTwo
  <2>4. battle' = NoBattle
    BY <2>1, <2>2 DEF Pop, OverlayInv, BattleHasScreen, TopScreen
  <2> QED
    BY <2>1, <2>3, <2>4 DEF OverlayInv, ScreensStand, TransitionFits, BattleHasScreen, TopScreen
<1> QED
  BY <1>1, <1>2, <1>3, <1>4, <1>5 DEF OverlayInv, TransitionFits

LEMMA AskKeepsOverlays ==
  ASSUME OverlayInv, NEW t, Ask(t), at \notin {"applyInput", "applyUpdate"},
         at' \in {"applyInput", "applyUpdate"}, UNCHANGED <<screens, battle>>,
         \/ t = "Adventure" /\ TopScreen = "Startup"
         \/ t \in {"StackInfo", "Battle"} /\ TopScreen = "Adventure"
         \/ t = "Pop" /\ TopScreen \in {"StackInfo", "Battle"}
  PROVE  OverlayInv'
<1>1. transitions = << >> /\ transitions' = <<t>>
  <2>1. transitions = << >> /\ transitions' = Append(transitions, t)
    BY DEF OverlayInv, TransitionFits, Ask
  <2>2. Append(<< >>, t) = <<t>>
    OBVIOUS
  <2> QED
    BY <2>1, <2>2
<1>2. /\ t = "Adventure" => screens = <<"Startup">>
      /\ t \in {"StackInfo", "Battle"} => screens = <<"Adventure">>
      /\ t = "Pop" => Len(screens) = 2
  BY DEF OverlayInv, ScreensStand, TopScreen
<1>3. t \in {"Adventure", "StackInfo", "Battle", "Pop"}
  OBVIOUS
<1>4. TransitionFits'
  BY <1>1, <1>2, <1>3 DEF TransitionFits
<1> QED
  BY <1>4 DEF OverlayInv, ScreensStand, BattleHasScreen, TopScreen

(* A step of the battle's own leaves a session.                            *)
LEMMA SessionStays ==
  ASSUME OverlayInv, TopScreen = "Battle", UNCHANGED <<screens, transitions>>,
         at \notin {"applyInput", "applyUpdate"},
         "phase" \in DOMAIN battle' /\ battle'.phase # "None"
  PROVE  OverlayInv'
BY DEF OverlayInv, ScreensStand, TransitionFits, BattleHasScreen, TopScreen

LEMMA UpdateBattleKeepsOverlays ==
  ASSUME OverlayInv, UpdateBattle
  PROVE  OverlayInv'
<1>1. /\ TopScreen = "Battle" /\ at = "update" /\ UNCHANGED <<screens, transitions>>
      /\ "phase" \in DOMAIN battle /\ battle.phase # "None"
  BY DEF UpdateBattle, OverlayInv, BattleHasScreen
<1>2. "phase" \in DOMAIN battle' /\ battle'.phase # "None"
  <2>1. CASE battle.phase = "Loading" /\ PrepareBattle
    BY <1>1, <2>1 DEF PrepareBattle
  <2>2. CASE battle.phase = "Loading" /\ SubmitAssetPreparation
    BY <1>1, <2>2 DEF SubmitAssetPreparation
  <2>3. CASE battle.phase = "Loading" /\ UploadBattleAssets
    BY <1>1, <2>3 DEF UploadBattleAssets
  <2>4. CASE battle.phase = "Loading" /\ FinalizeScenario
    BY <1>1, <2>4 DEF FinalizeScenario, NoBattle
  <2>5. CASE UNCHANGED <<assets, battle>>
    BY <1>1, <2>5
  <2> QED
    BY <2>1, <2>2, <2>3, <2>4, <2>5 DEF UpdateBattle
<1> QED
  BY <1>1, <1>2, SessionStays

LEMMA UpdateStartupKeepsOverlays ==
  ASSUME OverlayInv, UpdateStartup
  PROVE  OverlayInv'
<1>1. at = "update" /\ TopScreen = "Startup" /\ UNCHANGED <<screens, battle>>
  BY DEF UpdateStartup
<1>2. CASE UNCHANGED transitions
  BY <1>1, <1>2, OverlaysStay
<1>3. CASE Ask("Adventure") /\ at' = "applyUpdate"
  BY <1>1, <1>3, AskKeepsOverlays
<1>4. UNCHANGED transitions \/ (Ask("Adventure") /\ at' = "applyUpdate")
  BY DEF UpdateStartup, AdvanceStage, JustAdvances, LoadGameDataAndPortraits, PrepareAdventureMap,
         BuildVisualResources, SplitAssets, UploadInitialAssets, UploadAnimationAssets, UploadSplit,
         BuildInteractionMasks, Finalize
<1> QED
  BY <1>2, <1>3, <1>4

LEMMA NextKeepsOverlays == OverlayInv /\ [Next]_vars => OverlayInv'
<1> SUFFICES ASSUME OverlayInv, [Next]_vars PROVE OverlayInv'
  OBVIOUS
<1>1. CASE ApplyTransition
  BY <1>1, ApplyKeepsOverlays
<1>2. CASE NothingToApply
  BY <1>2, OverlaysStay DEF NothingToApply
<1>3. CASE CloseWindow
  BY <1>3, OverlaysStay DEF CloseWindow
<1>4. CASE Cancelled
  <2>1. at = "events" /\ TopScreen # "Startup" /\ UNCHANGED <<screens, battle>>
    BY <1>4 DEF Cancelled
  <2>2. CASE TopScreen = "Adventure"
    BY <1>4, <2>1, <2>2, OverlaysStay DEF Cancelled
  <2>3. CASE TopScreen # "Adventure"
    <3>1. TopScreen \in {"StackInfo", "Battle"}
      BY <2>1, <2>3, TopsOfScreens DEF OverlayInv, ScreensStand
    <3>2. Ask("Pop") /\ at' = "applyInput"
      BY <1>4, <2>3 DEF Cancelled, AfterEvent
    <3> QED
      BY <2>1, <3>1, <3>2, AskKeepsOverlays
  <2> QED
    BY <2>2, <2>3
<1>5. CASE Inspect
  BY <1>5, AskKeepsOverlays DEF Inspect, MapIsOnTop, AfterEvent
<1>6. CASE OpenDebugBattle
  BY <1>6, AskKeepsOverlays DEF OpenDebugBattle, MapIsOnTop, AfterEvent
<1>7. CASE StartMovement
  BY <1>7, OverlaysStay DEF StartMovement, MapIsOnTop
<1>8. CASE RestartScenario
  <2>1. TopScreen = "Battle" /\ at = "events" /\ UNCHANGED <<screens, transitions>>
        /\ battle' = NewSession(battle) /\ "phase" \in DOMAIN battle
    BY <1>8 DEF RestartScenario, OverlayInv, BattleHasScreen
  <2>2. "phase" \in DOMAIN battle' /\ battle'.phase # "None"
    BY <2>1 DEF NewSession
  <2> QED
    BY <2>1, <2>2, SessionStays
<1>9. CASE SelectionIsThere \/ RouteIsThere \/ IdleIsThere \/ WalkIsThere
  BY <1>9, OverlaysStay DEF SelectionIsThere, RouteIsThere, IdleIsThere, WalkIsThere, WaitIsOver
<1>10. CASE EndOfEvents \/ Pump \/ UpdateMap
  BY <1>10, OverlaysStay DEF EndOfEvents, Pump, UpdateMap
<1>11. CASE UpdateStartup
  BY <1>11, UpdateStartupKeepsOverlays
<1>12. CASE UpdateBattle
  BY <1>12, UpdateBattleKeepsOverlays
<1>13. CASE Render
  BY <1>13, OverlaysStay DEF Render
<1>14. CASE Worker
  BY <1>14, OverlaysStay DEF Worker, programVars
<1>15. CASE UNCHANGED vars
  BY <1>15, OverlaysStay DEF vars, programVars
<1> QED
  BY <1>1, <1>2, <1>3, <1>4, <1>5, <1>6, <1>7, <1>8, <1>9, <1>10, <1>11, <1>12, <1>13, <1>14, <1>15
  DEF Next, Player, MainThread

LEMMA OverlayInvIsSound == OverlayInv => OverlaysAreSound
<1> SUFFICES ASSUME OverlayInv PROVE OverlaysAreSound
  OBVIOUS
<1>1. screens \in {<<"Startup">>, <<"Adventure">>}
                    \cup {<<"Adventure", overlay>> : overlay \in {"StackInfo", "Battle"}}
  BY DEF OverlayInv, ScreensStand
<1>2. Len(transitions) <= 1 /\ (transitions = <<"Pop">> => Len(screens) = 2)
  <2>1. Len(<< >>) = 0 /\ \A t : Len(<<t>>) = 1
    OBVIOUS
  <2>2. \A t : <<t>> = <<"Pop">> => t = "Pop"
    OBVIOUS
  <2> QED
    BY <2>1, <2>2 DEF OverlayInv, TransitionFits
<1>3. battle # NoBattle <=> TopScreen = "Battle"
  BY DEF OverlayInv, BattleHasScreen, NoBattle
<1> QED
  BY <1>1, <1>2, <1>3 DEF OverlaysAreSound

(* However the player's events fall into the frames, a transition is       *)
(* applied before the next one is asked for, so overlays never pile up and *)
(* a battle's session lives as long as its screen (screen_manager.cpp).    *)
THEOREM OverlaysStaySound == Spec => []OverlaysAreSound
<1>1. Init => OverlayInv
  BY DEF Init, OverlayInv, ScreensStand, TransitionFits, BattleHasScreen, TopScreen
<1> QED
  BY <1>1, NextKeepsOverlays, OverlayInvIsSound, PTL DEF Spec
-----------------------------------------------------------------------------
(***************************************************************************)
(* The images.  What the screens count on is an invariant of the handles   *)
(* everybody keeps (HandlesOK), of the batches (BatchesOK), of the phases  *)
(* (PhasesOK), of what has a texture when (LoadedOK, ShownOK, BattleOK)    *)
(* and of who owes what is in memory (KeepOK).  The parts need each other: *)
(* a preload is complete with all of its textures only because each handle *)
(* it waits for is of a key of its plan and the image of that key, and it  *)
(* stays that image because nobody but its owner gives it back, which is   *)
(* true because a battle's keys are its own and the phases of loading come *)
(* one after the other.  The operators on the images are folds; lemmas say *)
(* what one of their rounds keeps, and what that means at the end.         *)
(***************************************************************************)
(* The types.                                                              *)
Image == [key : Keys, status : {"Waiting", "Ready", "Failed"}]
Assets ==
  [entry : [Keys -> Nat], images : Seq(Image), texture : [Keys -> Int], refused : SUBSET Nat,
   pending : Seq(Nat), cleanups : SUBSET [pending : SUBSET Nat, batch : Nat \ {0}],
   batches : Seq({"open", "sealed", "active"}), armed : SUBSET Nat, dropped : SUBSET Nat]

(* A key whose file gives an image and a texture, and a sequence of keys   *)
(* of which one does not.                                                  *)
Good(k) == k \notin faults.undecodable \cup faults.unusable
Lacks(keys) == \E k \in ToSet(keys) : ~Good(k)
Handles(a) == 1 .. Len(a.images)
HandlesFor(a, S) == {n \in Handles(a) : KeyOf(a, n) \in S}

(* What is said of a key is said of an image of this key, a texture comes  *)
(* of a good file, and an image is ready or failed as its file is.         *)
ImagesOK(a) ==
  /\ a \in Assets
  /\ \A k \in Keys : /\ a.entry[k] # 0 => a.entry[k] \in HandlesFor(a, {k})
                     /\ Cached(a, k) => Good(k)
  /\ \A n \in Handles(a) : /\ a.images[n].status = "Ready" => KeyOf(a, n) \notin faults.undecodable
                           /\ a.images[n].status = "Failed" => KeyOf(a, n) \in faults.undecodable

(* Each of some keys has a texture or one of the handles S; or has a       *)
(* texture.                                                                *)
Covered(a, keys, S) ==
  \A k \in ToSet(keys) : Cached(a, k) \/ \E n \in S : KeyOf(a, n) = k
AllIn(a, keys) == \A k \in ToSet(keys) : Cached(a, k)
(* A preload with the plan keys: what it waits for is of the plan, it has  *)
(* failed only if the plan lacks something, and it has forgotten nothing.  *)
PreloadOK(a, p, keys) ==
  /\ p \in [batch : Nat, pending : Seq(Nat), failed : BOOLEAN]
  /\ ToSet(p.pending) \subseteq HandlesFor(a, ToSet(keys))
  /\ ~Exists(p) => p = NoPreload
  /\ p.failed => Lacks(keys)
  /\ Exists(p) => p.failed \/ Covered(a, keys, ToSet(p.pending))

(* Whose images may be asked for by whom.                                  *)
Marks == ToSet(SelectKeys) \cup ToSet(RouteKeys)
MapKeys ==
  Marks \cup ToSet(InfoKeys) \cup ToSet(IdleKeys) \cup ToSet(WalkKeys)
PendingKeys(ph) == IF ph = "Running" THEN MapKeys ELSE Marks
CleanupHandles(a) == UNION {c.pending : c \in a.cleanups}
(* Whoever keeps handles keeps those of images it has asked for itself.    *)
HandlesIn(a, ph, sp, w, b) ==
  /\ ToSet(a.pending) \subseteq HandlesFor(a, PendingKeys(ph))
  /\ w \in Seq(Nat) /\ ToSet(w) \subseteq Handles(a)
  /\ sp \in [initial : {sp.initial}, animation : {sp.animation}, masks : Seq(Nat)]
  /\ ToSet(sp.masks) \subseteq HandlesFor(a, ToSet(MaskKeys))
  /\ PreloadOK(a, sp.initial, InitialKeys) /\ PreloadOK(a, sp.animation, AnimationKeys)
  /\ PreloadOK(a, b.preload, BattleKeys)
  /\ CleanupHandles(a) \subseteq HandlesFor(a, ToSet(BattleKeys))
HandlesOK == HandlesIn(assets, phase, split, waiting, battle)

(* The three preloads there can be.                                        *)
Parts == {"initial", "animation", "battle"}
PreloadsOf(sp, b) == [initial |-> sp.initial, animation |-> sp.animation, battle |-> b.preload]
Preloads == PreloadsOf(split, battle)
(* Every batch that is not active has one owner, a preload or a cancelled  *)
(* one, which has it open as long as it waits for something; a batch that  *)
(* is sealed without an owner is armed, and nothing was ever dropped.      *)
BatchesIn(a, ps) ==
  /\ a.dropped = {}
  /\ a.armed \subseteq DOMAIN a.batches /\ \A b \in a.armed : a.batches[b] = "sealed"
  /\ \A o \in Parts : Exists(ps[o]) =>
       /\ ps[o].batch \in DOMAIN a.batches \ a.armed
       /\ a.batches[ps[o].batch] = IF Complete(ps[o]) THEN "sealed" ELSE "open"
       /\ \A q \in Parts \ {o} : ps[q].batch # ps[o].batch
       /\ \A c \in a.cleanups : c.batch # ps[o].batch
  /\ \A c \in a.cleanups :
       /\ c.batch \in DOMAIN a.batches \ a.armed /\ a.batches[c.batch] = "open"
       /\ \A d \in a.cleanups : d.batch = c.batch => d = c
  /\ \A b \in DOMAIN a.batches :
       /\ a.batches[b] = "open" => \/ \E o \in Parts : ps[o].batch = b
                                   \/ \E c \in a.cleanups : c.batch = b
       /\ a.batches[b] = "sealed" => b \in a.armed \/ \E o \in Parts : ps[o].batch = b
BatchesOK == BatchesIn(assets, Preloads)

(* The phases of loading, and what may happen in which: until the program  *)
(* runs there is one screen, without a movement and without a battle; the  *)
(* split preloads are there one after the other; and the main thread waits *)
(* where its phase says.                                                   *)
BeforeMarks == {"Bootstrap", "ParseScenario", "LoadGameDataAndPortraits", "PrepareAdventureMap",
                "BuildVisualResources", "Failed"}
Uploads == {"UploadInitialAssets", "UploadAnimationAssets", "BuildInteractionMasks"}
PhasesOK ==
  /\ phase \in BeforeMarks \cup {"SplitAssets", "Finalize", "Running"} \cup Uploads
  /\ phase # "Running" =>
       /\ screens = <<"Startup">> /\ transitions = << >> /\ ~moving
       /\ assets.cleanups = {} /\ battle = NoBattle
  /\ phase \notin Uploads => split = NoSplit
  /\ phase = "UploadInitialAssets" => Exists(split.initial) /\ Exists(split.animation)
  /\ phase = "UploadAnimationAssets" => ~Exists(split.initial) /\ Exists(split.animation)
  /\ phase = "BuildInteractionMasks" => ~Exists(split.initial) /\ ~Exists(split.animation)
  /\ at \in {"selection", "route"} => phase = "BuildVisualResources"
  /\ at \in {"idle", "walk"} => phase = "Running" /\ TopScreen = "Adventure"
  /\ at \in {"events", "applyInput", "pump", "update", "applyUpdate", "render", "over", "crashed"} \cup Waits
  /\ at \notin Waits \cup {"crashed"} => waiting = << >>
  /\ phase = "Failed" => faults.scenario
  /\ transitions # << >> /\ Head(transitions) = "Adventure" => screens = <<"Startup">>

(* The main thread waits for all that some keys still lack.                *)
AwaitedOf(a, w, keys) == Covered(a, keys, ToSet(w)) /\ ToSet(w) \subseteq HandlesFor(a, ToSet(keys))
(* What has a texture when: what a finished phase was there to upload, and *)
(* while the thread waits whatever it does not wait for. Until the marks   *)
(* are there, nothing else has a texture. A crash has its faulty file.     *)
LoadedIn(a, c, ph, w) ==
  /\ ph \in BeforeMarks \cup {"SplitAssets"} => \A k \in Keys : Cached(a, k) => k \in Marks
  /\ c \in {"selection", "route", "walk"} => ToSet(w) \subseteq ToSet(a.pending)
  /\ c = "selection" => AwaitedOf(a, w, SelectKeys)
  /\ c = "route" => AllIn(a, SelectKeys) /\ AwaitedOf(a, w, RouteKeys)
  /\ ph \notin BeforeMarks => AllIn(a, SelectKeys) /\ AllIn(a, RouteKeys)
  /\ ph \notin BeforeMarks \cup {"SplitAssets", "UploadInitialAssets"} => AllIn(a, InitialKeys)
  /\ ph \in {"BuildInteractionMasks", "Finalize", "Running"} => AllIn(a, AnimationKeys)
  /\ c = "idle" => /\ AwaitedOf(a, w, IdleKeys)
                   /\ \A n \in ToSet(w) : a.entry[KeyOf(a, n)] = n
  /\ c = "walk" => AllIn(a, IdleKeys) /\ AwaitedOf(a, w, WalkKeys)
  /\ c = "crashed" => \E keys \in {SelectKeys, RouteKeys, InitialKeys, AnimationKeys, IdleKeys, WalkKeys} : Lacks(keys)
(* A movement that is shown has its images.                                *)
ShownOK == moving => AllIn(assets, IdleKeys) /\ AllIn(assets, WalkKeys)
LoadedOK == LoadedIn(assets, at, phase, waiting)

(* A battle in each of its stages: a preload while it uploads and after a  *)
(* failed upload, and after it every texture.                              *)
BattleIn(a, b) ==
  \/ b = NoBattle
  \/ /\ b \in [phase : {"Loading"}, stage : DOMAIN NextStage \cup {"SubmitAssetPreparation"}, played : BOOLEAN, preload : {NoPreload}]
  \/ /\ b \in [phase : {"Loading"}, stage : {"UploadAssets"}, played : BOOLEAN, preload : {b.preload}]
     /\ Exists(b.preload)
  \/ /\ b \in [phase : {"Loading"}, stage : {"FinalizeScenario"}, played : BOOLEAN, preload : {NoPreload}]
     /\ AllIn(a, BattleKeys)
  \/ /\ b = [NoBattle EXCEPT !.phase = "Ready", !.played = TRUE]
     /\ AllIn(a, BattleKeys)
  \/ /\ b \in [phase : {"Failed"}, stage : {"Failed"}, played : BOOLEAN, preload : {b.preload}]
     /\ faults.battle \/ Lacks(BattleKeys)
BattleOK == BattleIn(assets, battle)

(* An image that stays in memory whatever happens; and a handle that       *)
(* nobody needs to care for any more: its image is gone, not an image, or  *)
(* one that stays.                                                         *)
KeptIn(a, k) == k \in ToSet(TerrainKeys) \/ a.entry[k] \in a.refused \/ a.texture[k] = Raw
Settled(a, n) ==
  a.entry[KeyOf(a, n)] = n => a.images[n].status = "Failed" \/ KeptIn(a, KeyOf(a, n))
(* Every handle is settled, or owed by the uploads up of the program,      *)
(* those of the battle bp, or others. What is still to be uploaded for a   *)
(* good key is the image its key has now, so that nobody gives back the    *)
(* image of somebody else: the battle has one handle per key, and no key   *)
(* but its own.                                                            *)
KeepIn(a, up, bp, others) ==
  /\ \A n \in Handles(a) : Settled(a, n) \/ n \in up \cup bp \cup others
  /\ \A n \in up \cup bp : Cached(a, KeyOf(a, n)) => Settled(a, n)
  /\ \A n \in up : Good(KeyOf(a, n)) /\ ~Cached(a, KeyOf(a, n)) => a.entry[KeyOf(a, n)] = n
  /\ \A m, n \in bp : KeyOf(a, m) = KeyOf(a, n) => m = n
(* Who owes what here.                                                     *)
UploadingOf(a, sp) == ToSet(a.pending) \cup ToSet(sp.initial.pending) \cup ToSet(sp.animation.pending)
KeepOK ==
  KeepIn(assets, UploadingOf(assets, split), ToSet(battle.preload.pending), ToSet(waiting) \cup CleanupHandles(assets))

(* The invariant. What is in memory is only cared for while the program    *)
(* has not stopped.                                                        *)
ProgramInv ==
  /\ ImagesOK(assets) /\ faults \in Faults
  /\ HandlesOK /\ BatchesOK /\ PhasesOK /\ LoadedOK /\ ShownOK /\ BattleOK
  /\ ~Stopped => KeepOK

(* A chain of functions on a set, and the runs that go through it.         *)
ChainOn(S, L, F) == F \in [1 .. L -> [S -> S]]

RunsOn(X) ==
  \A x0 \in X : \A G \in [X -> X] :
    \E f \in [Nat -> X] : f[0] = x0 /\ \A n \in Nat : f[n + 1] = G[f[n]]

(* A function on numbers may be defined by what it is at 0 and from one    *)
(* number to the next.                                                     *)
LEMMA RunExists == ASSUME NEW X PROVE RunsOn(X)
BY SequenceExists DEF RunsOn

(* What a chain has reached at its end, from base.                         *)
HasChain(S, L, base, F) ==
  \E f \in [0 .. L -> S] : f[0] = base /\ \A n \in 1 .. L : f[n] = F[n][f[n - 1]]

(* Every chain has such a run.                                             *)
LEMMA ChainExists ==
  ASSUME NEW S, NEW L \in Nat, NEW base \in S, NEW F, ChainOn(S, L, F)
  PROVE  HasChain(S, L, base, F)
<1> DEFINE X == Nat \X S
           Step(x) == <<x[1] + 1, IF x[1] + 1 <= L THEN F[x[1] + 1][x[2]] ELSE x[2]>>
           G == [x \in X |-> Step(x)]
           x0 == <<0, base>>
<1>1. x0 \in X
  OBVIOUS
<1>2. G \in [X -> X]
  <2>1. ASSUME NEW x \in X PROVE Step(x) \in X
    <3>1. x[1] \in Nat /\ x[2] \in S
      OBVIOUS
    <3>2. CASE x[1] + 1 <= L
      <4>1. x[1] + 1 \in 1 .. L
        BY <3>1, <3>2
      <4>2. F[x[1] + 1] \in [S -> S]
        BY <4>1 DEF ChainOn
      <4>3. F[x[1] + 1][x[2]] \in S
        BY <3>1, <4>2
      <4> QED
        BY <3>1, <3>2, <4>3
    <3>3. CASE ~(x[1] + 1 <= L)
      BY <3>1, <3>3
    <3> QED
      BY <3>2, <3>3
  <2> HIDE DEF X, Step
  <2> QED
    BY <2>1
<1>3. PICK g \in [Nat -> X] : g[0] = x0 /\ \A n \in Nat : g[n + 1] = G[g[n]]
  <2> HIDE DEF X, G, x0
  <2>1. RunsOn(X)
    BY RunExists
  <2> QED
    BY <1>1, <1>2, <2>1, Zenon DEF RunsOn
<1>4. \A n \in Nat : g[n] \in X /\ g[n + 1] = Step(g[n])
  <2> HIDE DEF X, Step, x0
  <2> QED
    BY <1>3
<1>5. \A n \in Nat : g[n][1] = n
  <2> DEFINE T == {n \in Nat : g[n][1] = n}
  <2>1. 0 \in T
    BY <1>3
  <2>2. ASSUME NEW n \in T PROVE n + 1 \in T
    <3>1. n \in Nat /\ g[n][1] = n /\ n + 1 \in Nat
      BY <2>2
    <3>2. g[n + 1] = Step(g[n])
      BY <3>1, <1>4
    <3>3. g[n + 1][1] = g[n][1] + 1
      BY <3>2
    <3> QED
      BY <3>1, <3>3
  <2>3. T = Nat
    <3> HIDE DEF T
    <3>1. T \in SUBSET Nat
      BY DEF T
    <3> QED
      BY <2>1, <2>2, <3>1, NatSetInduction
  <2> QED
    BY <2>3
<1> DEFINE f == [n \in 0 .. L |-> g[n][2]]
<1>6. f \in [0 .. L -> S]
  BY <1>4
<1>7. f[0] = base
  BY <1>3
<1>8. ASSUME NEW n \in 1 .. L PROVE f[n] = F[n][f[n - 1]]
  <2>1. n - 1 \in Nat /\ n - 1 \in 0 .. L /\ n \in 0 .. L /\ (n - 1) + 1 = n /\ n <= L
    OBVIOUS
  <2>2. g[n] = Step(g[n - 1]) /\ g[n - 1][1] = n - 1
    <3> HIDE DEF Step
    <3> QED
      BY <2>1, <1>4, <1>5
  <2>3. g[n][2] = F[n][g[n - 1][2]]
    BY <2>1, <2>2
  <2> QED
    BY <2>1, <2>3
<1> QED
  <2> HIDE DEF f
  <2> QED
    BY <1>6, <1>7, <1>8 DEF HasChain

(* Induction over the first numbers, for a set.                            *)
LEMMA Climb ==
  ASSUME NEW L \in Nat, NEW T, 0 \in T, \A n \in 1 .. L : n - 1 \in T => n \in T
  PROVE  L \in T
<1> DEFINE U == {n \in Nat : n <= L => n \in T}
<1>1. 0 \in U
  OBVIOUS
<1>2. ASSUME NEW n \in U PROVE n + 1 \in U
  <2>1. n \in Nat /\ n + 1 \in Nat
    BY <1>2
  <2>2. CASE n + 1 <= L
    <3>1. n + 1 \in 1 .. L /\ (n + 1) - 1 = n /\ n <= L
      BY <2>1, <2>2
    <3>2. n \in T
      BY <1>2, <3>1
    <3> QED
      BY <2>1, <3>1, <3>2
  <2>3. CASE ~(n + 1 <= L)
    BY <2>1, <2>3
  <2> QED
    BY <2>2, <2>3
<1>3. U = Nat
  <2> HIDE DEF U
  <2>1. U \in SUBSET Nat
    BY DEF U
  <2> QED
    BY <1>1, <1>2, <2>1, NatSetInduction
<1> QED
  BY <1>3
-----------------------------------------------------------------------------
(* Only images are uploaded and given back.                                *)
SameRest(a, x) ==
  /\ x.images = a.images /\ x.pending = a.pending /\ x.cleanups = a.cleanups
  /\ x.batches = a.batches /\ x.armed = a.armed /\ x.dropped = a.dropped
Uploaded(a, x) ==
  /\ x \in Assets /\ SameRest(a, x) /\ a.refused \subseteq x.refused
  /\ \A k \in Keys : /\ x.entry[k] = a.entry[k] \/ x.entry[k] = 0
                     /\ Cached(a, k) => x.texture[k] = a.texture[k]
                     /\ Cached(x, k) => Cached(a, k) \/ Good(k)
                     /\ Good(k) /\ ~Cached(x, k) => x.entry[k] = a.entry[k]

(* An upload of nothing.                                                   *)
LEMMA UploadedRefl == ASSUME NEW a \in Assets PROVE Uploaded(a, a)
BY DEF Uploaded, SameRest

(* One upload after another.                                               *)
LEMMA UploadedTrans ==
  ASSUME NEW a, NEW x, NEW y, Uploaded(a, x), Uploaded(x, y) PROVE Uploaded(a, y)
<1>1. SameRest(a, y) /\ y \in Assets
  BY DEF Uploaded, SameRest
<1>2. a.refused \subseteq y.refused
  BY DEF Uploaded
<1>3. ASSUME NEW k \in Keys
      PROVE  /\ y.entry[k] = a.entry[k] \/ y.entry[k] = 0
             /\ Cached(a, k) => y.texture[k] = a.texture[k]
             /\ Cached(y, k) => Cached(a, k) \/ Good(k)
             /\ Good(k) /\ ~Cached(y, k) => y.entry[k] = a.entry[k]
  BY DEF Uploaded, Cached
<1> QED
  BY <1>1, <1>2, <1>3 DEF Uploaded

(* The images stay right.                                                  *)
LEMMA UploadedImages ==
  ASSUME NEW a, NEW x, ImagesOK(a), Uploaded(a, x) PROVE ImagesOK(x)
<1>1. x \in Assets /\ x.images = a.images /\ Handles(x) = Handles(a)
  BY DEF Uploaded, SameRest, Handles
<1>2. \A n \in Handles(a) : KeyOf(x, n) = KeyOf(a, n)
  BY <1>1 DEF KeyOf
<1>3. ASSUME NEW k \in Keys
      PROVE  (x.entry[k] # 0 => x.entry[k] \in HandlesFor(x, {k})) /\ (Cached(x, k) => Good(k))
  BY <1>1, <1>2 DEF Uploaded, ImagesOK, HandlesFor
<1>4. \A n \in Handles(x) : /\ x.images[n].status = "Ready" => KeyOf(x, n) \notin faults.undecodable
                            /\ x.images[n].status = "Failed" => KeyOf(x, n) \in faults.undecodable
  BY <1>1, <1>2 DEF ImagesOK
<1> QED
  BY <1>1, <1>3, <1>4 DEF ImagesOK

(* The types, taken apart.                                                 *)
LEMMA ImageFacts ==
  ASSUME NEW a \in Assets
  PROVE  /\ Len(a.images) \in Nat
         /\ \A n \in Handles(a) : /\ n \in Nat \ {0} /\ KeyOf(a, n) \in Keys
                                  /\ a.images[n].status \in {"Waiting", "Ready", "Failed"}
         /\ a.entry \in [Keys -> Nat] /\ a.texture \in [Keys -> Int]
<1>1. a.images \in Seq(Image) /\ a.entry \in [Keys -> Nat] /\ a.texture \in [Keys -> Int]
  BY DEF Assets
<1>2. Len(a.images) \in Nat /\ \A n \in 1 .. Len(a.images) : a.images[n] \in Image
  BY <1>1
<1> QED
  BY <1>1, <1>2 DEF Handles, KeyOf, Image

(* An upload: of a, with image n ready. *)
LEMMA PreparedFacts ==
  ASSUME NEW a, ImagesOK(a), NEW n \in Handles(a), HasImage(a, n)
  PROVE  /\ Uploaded(a, UploadPrepared(a, n))
         /\ UploadPrepared(a, n).entry = a.entry
         /\ Cached(UploadPrepared(a, n), KeyOf(a, n)) <=> Good(KeyOf(a, n))
         /\ ~Good(KeyOf(a, n)) => n \in UploadPrepared(a, n).refused
         /\ \A k \in Keys \ {KeyOf(a, n)} : Cached(UploadPrepared(a, n), k) => Cached(a, k)
<1> DEFINE x == UploadPrepared(a, n)
           k == KeyOf(a, n)
<1>1. a \in Assets /\ k \in Keys /\ n \in Nat \ {0} /\ k \notin faults.undecodable
  BY ImageFacts DEF ImagesOK, HasImage
<1>2. CASE Cached(a, k)
  <2>1. x = a /\ Good(k)
    BY <1>1, <1>2 DEF UploadPrepared, ImagesOK
  <2> QED
    BY <1>1, <1>2, <2>1, UploadedRefl
<1>3. CASE ~Cached(a, k) /\ k \in faults.unusable
  <2>1. x = [a EXCEPT !.refused = @ \cup {n}]
    BY <1>3 DEF UploadPrepared
  <2>2. x \in Assets /\ SameRest(a, x) /\ x.refused = a.refused \cup {n} /\ x.entry = a.entry /\ x.texture = a.texture
    BY <1>1, <2>1 DEF Assets, SameRest
  <2>3. ~Good(k) /\ ~Cached(x, k) /\ \A j \in Keys : Cached(x, j) <=> Cached(a, j)
    BY <1>3, <2>2 DEF Good, Cached
  <2>4. Uploaded(a, x)
    BY <2>2, <2>3 DEF Uploaded
  <2>5. n \in x.refused /\ x.entry = a.entry
    BY <2>2
  <2> QED
    BY <2>3, <2>4, <2>5
<1>4. CASE ~Cached(a, k) /\ k \notin faults.unusable
  <2>1. x = [a EXCEPT !.texture[k] = n]
    BY <1>4 DEF UploadPrepared
  <2>3. x.texture = [a.texture EXCEPT ![k] = n] /\ a.texture \in [Keys -> Int]
    BY <1>1, <2>1 DEF Assets
  <2>2. x \in Assets /\ SameRest(a, x) /\ x.refused = a.refused /\ x.entry = a.entry
    <3>1. [a.texture EXCEPT ![k] = n] \in [Keys -> Int]
      BY <1>1, <2>3
    <3>2. x = [a EXCEPT !.texture = [a.texture EXCEPT ![k] = n]]
      BY <2>1
    <3> HIDE DEF x, k
    <3> QED
      BY <1>1, <3>1, <3>2 DEF Assets, SameRest
  <2>4. Good(k) /\ Cached(x, k) /\ \A j \in Keys \ {k} : x.texture[j] = a.texture[j]
    BY <1>1, <1>4, <2>3 DEF Good, Cached, NoTexture
  <2>5. Uploaded(a, x)
    <3> HIDE DEF x, k
    <3> QED
      BY <2>2, <2>4, <1>4 DEF Uploaded, Cached
  <2>6. \A j \in Keys \ {k} : Cached(x, j) => Cached(a, j)
    BY <2>4 DEF Cached
  <2> QED
    BY <2>2, <2>4, <2>5, <2>6
<1> QED
  BY <1>2, <1>3, <1>4

(* The members of a sequence.                                              *)
LEMMA MembersOf ==
  ASSUME NEW S, NEW s \in Seq(S)
  PROVE  /\ ToSet(s) = {s[i] : i \in 1 .. Len(s)} /\ ToSet(s) \subseteq S /\ Len(s) \in Nat
         /\ s = << >> <=> ToSet(s) = {}
         /\ s \in Seq(ToSet(s))
BY DEF ToSet

(* And of a sequence with one more.                                        *)
LEMMA MembersOfAppend ==
  ASSUME NEW S, NEW s \in Seq(S), NEW e \in S
  PROVE  Append(s, e) \in Seq(S) /\ ToSet(Append(s, e)) = ToSet(s) \cup {e}
<1> DEFINE t == Append(s, e)
<1>1. t \in Seq(S) /\ Len(t) = Len(s) + 1 /\ Len(s) \in Nat
  OBVIOUS
<1>2. \A i \in 1 .. Len(t) : t[i] = IF i <= Len(s) THEN s[i] ELSE e
  OBVIOUS
<1>3. ToSet(t) = {t[i] : i \in 1 .. Len(t)} /\ ToSet(s) = {s[i] : i \in 1 .. Len(s)}
  BY <1>1 DEF ToSet
<1>4. t[Len(s) + 1] = e /\ Len(s) + 1 \in 1 .. Len(t)
  BY <1>1, <1>2
<1>5. \A i \in 1 .. Len(s) : i \in 1 .. Len(t) /\ t[i] = s[i]
  BY <1>1, <1>2
<1>6. \A i \in 1 .. Len(t) : i \in 1 .. Len(s) \/ i = Len(s) + 1
  BY <1>1
<1> HIDE DEF t
<1>7. ASSUME NEW x PROVE x \in ToSet(t) <=> x \in ToSet(s) \cup {e}
  BY <1>3, <1>4, <1>5, <1>6
<1> QED
  BY <1>1, <1>7 DEF t

(* And of two sequences, one after the other.                              *)
LEMMA MembersOfBoth ==
  ASSUME NEW S, NEW s \in Seq(S), NEW t \in Seq(S)
  PROVE  s \o t \in Seq(S) /\ ToSet(s \o t) = ToSet(s) \cup ToSet(t)
<1> DEFINE u == s \o t
<1>1. u \in Seq(S) /\ Len(u) = Len(s) + Len(t) /\ Len(s) \in Nat /\ Len(t) \in Nat
  OBVIOUS
<1>2. /\ \A i \in 1 .. Len(s) : u[i] = s[i] /\ i \in 1 .. Len(u)
      /\ \A i \in 1 .. Len(t) : u[Len(s) + i] = t[i] /\ Len(s) + i \in 1 .. Len(u)
  OBVIOUS
<1>3. \A i \in 1 .. Len(u) : i \in 1 .. Len(s) \/ (i - Len(s) \in 1 .. Len(t) /\ i = Len(s) + (i - Len(s)))
  BY <1>1
<1>4. /\ ToSet(u) = {u[i] : i \in 1 .. Len(u)} /\ ToSet(s) = {s[i] : i \in 1 .. Len(s)}
      /\ ToSet(t) = {t[i] : i \in 1 .. Len(t)}
  BY <1>1 DEF ToSet
<1> HIDE DEF u
<1>5. ASSUME NEW x PROVE x \in ToSet(u) <=> x \in ToSet(s) \cup ToSet(t)
  <2>1. ASSUME x \in ToSet(u) PROVE x \in ToSet(s) \cup ToSet(t)
    <3>1. PICK i \in 1 .. Len(u) : x = u[i]
      BY <1>4, <2>1
    <3>2. CASE i \in 1 .. Len(s)
      BY <1>2, <1>4, <3>1, <3>2
    <3>3. CASE i - Len(s) \in 1 .. Len(t) /\ i = Len(s) + (i - Len(s))
      <4>1. u[i] = t[i - Len(s)]
        BY <1>2, <3>3
      <4> QED
        BY <1>4, <3>1, <3>3, <4>1
    <3> QED
      BY <1>3, <3>1, <3>2, <3>3
  <2>2. ASSUME x \in ToSet(s) \cup ToSet(t) PROVE x \in ToSet(u)
    BY <1>2, <1>4, <2>2
  <2> QED
    BY <2>1, <2>2
<1> QED
  BY <1>1, <1>5 DEF u

(* And of none.                                                            *)
LEMMA MembersOfNone == << >> \in Seq(Nat) /\ ToSet(<< >>) = {}
BY DEF ToSet
-----------------------------------------------------------------------------
(* Images are asked for, and nothing else happens.                         *)
Asks(a, x) ==
  /\ x.texture = a.texture /\ x.refused = a.refused /\ x.pending = a.pending
  /\ x.cleanups = a.cleanups /\ x.batches = a.batches /\ x.armed = a.armed /\ x.dropped = a.dropped
  /\ \A n \in Handles(a) : n \in Handles(x) /\ x.images[n] = a.images[n]
  /\ \A n \in Handles(x) \ Handles(a) : a.entry[KeyOf(x, n)] = 0 /\ x.entry[KeyOf(x, n)] = n
  /\ \A k \in Keys : x.entry[k] = a.entry[k] \/ (a.entry[k] = 0 /\ x.entry[k] \in Handles(x) \ Handles(a))

(* Nobody asks.                                                            *)
LEMMA AsksRefl == ASSUME NEW a PROVE Asks(a, a)
BY DEF Asks

(* One question after another.                                             *)
LEMMA AsksTrans ==
  ASSUME NEW a, NEW x, NEW y, ImagesOK(a), ImagesOK(x), ImagesOK(y), Asks(a, x), Asks(x, y)
  PROVE  Asks(a, y)
<1>1. /\ \A n \in Handles(a) : n # 0
      /\ \A n \in Handles(x) : KeyOf(x, n) \in Keys /\ n # 0
      /\ \A n \in Handles(y) : KeyOf(y, n) \in Keys /\ n # 0
  BY ImageFacts DEF ImagesOK
<1>2. \A n \in Handles(a) : n \in Handles(y) /\ y.images[n] = a.images[n]
  BY DEF Asks
<1>3. ASSUME NEW n \in Handles(y) \ Handles(a)
      PROVE  a.entry[KeyOf(y, n)] = 0 /\ y.entry[KeyOf(y, n)] = n
  <2>1. CASE n \in Handles(x)
    <3>1. KeyOf(y, n) = KeyOf(x, n)
      BY <2>1 DEF Asks, KeyOf
    <3> QED
      BY <1>1, <1>3, <2>1, <3>1 DEF Asks
  <2>2. CASE n \notin Handles(x)
    BY <1>1, <1>3, <2>2 DEF Asks
  <2> QED
    BY <2>1, <2>2
<1>4. ASSUME NEW k \in Keys
      PROVE  y.entry[k] = a.entry[k] \/ (a.entry[k] = 0 /\ y.entry[k] \in Handles(y) \ Handles(a))
  BY DEF Asks
<1> QED
  BY <1>2, <1>3, <1>4 DEF Asks

(* request_image gives an image of its key, the only one that may be new.  *)
LEMMA RequestFacts ==
  ASSUME NEW a, ImagesOK(a), NEW k \in Keys
  PROVE  LET x == Request(a, k)
         IN  /\ ImagesOK(x) /\ Asks(a, x)
             /\ x.entry[k] \in HandlesFor(x, {k})
             /\ \A n \in Handles(x) \ Handles(a) : n = x.entry[k]
<1> DEFINE x == Request(a, k)
           new == Len(a.images) + 1
           image == [key |-> k, status |-> "Waiting"]
<1>0. /\ a \in Assets /\ Len(a.images) \in Nat /\ a.images \in Seq(Image)
      /\ \A n \in Handles(a) : KeyOf(a, n) \in Keys /\ n \in Nat \ {0}
  BY ImageFacts DEF ImagesOK, Assets
<1>1. CASE a.entry[k] # 0
  <2>1. x = a
    BY <1>1 DEF Request
  <2> QED
    BY <1>1, <2>1, AsksRefl DEF ImagesOK
<1>2. CASE a.entry[k] = 0
  <2>1. x = [a EXCEPT !.images = Append(a.images, image), !.entry = [a.entry EXCEPT ![k] = new]]
    BY <1>2 DEF Request
  <2>2. Append(a.images, image) \in Seq(Image) /\ [a.entry EXCEPT ![k] = new] \in [Keys -> Nat]
    BY <1>0 DEF Image, Assets
  <2>3. /\ x.images = Append(a.images, image) /\ x.entry = [a.entry EXCEPT ![k] = new]
        /\ x.texture = a.texture /\ x.refused = a.refused /\ x.pending = a.pending
        /\ x.cleanups = a.cleanups /\ x.batches = a.batches /\ x.armed = a.armed /\ x.dropped = a.dropped
        /\ x \in Assets
    <3> HIDE DEF new, image, x
    <3> QED
      BY <2>1, <2>2, <1>0 DEF Assets
  <2>4. /\ Handles(x) = Handles(a) \cup {new} /\ new \notin Handles(a)
        /\ \A n \in Handles(a) : x.images[n] = a.images[n]
        /\ x.images[new] = image
    BY <1>0, <2>3 DEF Handles
  <2>5. x.entry[k] = new /\ \A j \in Keys \ {k} : x.entry[j] = a.entry[j]
    BY <1>0, <2>3 DEF Assets
  <2>6. KeyOf(x, new) = k /\ \A n \in Handles(a) : KeyOf(x, n) = KeyOf(a, n)
    BY <2>4 DEF KeyOf
  <2>7. x.images[new].status = "Waiting"
    BY <2>4
  <2> HIDE DEF new, image, x
  <2>8. ImagesOK(x)
    <3>1. \A j \in Keys : x.entry[j] # 0 => x.entry[j] \in HandlesFor(x, {j})
      BY <2>4, <2>5, <2>6 DEF ImagesOK, HandlesFor
    <3>2. \A j \in Keys : Cached(x, j) => Good(j)
      BY <2>3 DEF ImagesOK, Cached
    <3>3. \A n \in Handles(x) : /\ x.images[n].status = "Ready" => KeyOf(x, n) \notin faults.undecodable
                                /\ x.images[n].status = "Failed" => KeyOf(x, n) \in faults.undecodable
      BY <2>4, <2>6, <2>7 DEF ImagesOK
    <3> QED
      BY <2>3, <3>1, <3>2, <3>3 DEF ImagesOK
  <2>9. Asks(a, x)
    BY <1>2, <2>3, <2>4, <2>5, <2>6 DEF Asks
  <2> QED
    BY <2>4, <2>5, <2>6, <2>8, <2>9 DEF HandlesFor, x
<1> QED
  BY <1>1, <1>2
-----------------------------------------------------------------------------
(* What has been asked for so far, of some keys that are not known.        *)
AskedFor(a, keys, known, c) ==
  /\ c \in [a : Assets, handles : Seq(Nat)] /\ ImagesOK(c.a) /\ Asks(a, c.a)
  /\ \A n \in ToSet(c.handles) : /\ n \in HandlesFor(c.a, ToSet(keys)) /\ c.a.entry[KeyOf(c.a, n)] = n
                                /\ KeyOf(c.a, n) \notin known
  /\ Handles(c.a) \ Handles(a) \subseteq ToSet(c.handles)

(* One question more.                                                      *)
AskedAlso(known, c, k, d) ==
  /\ k \notin known => \E n \in ToSet(d.handles) : KeyOf(d.a, n) = k
  /\ \A n \in ToSet(c.handles) : n \in ToSet(d.handles) /\ KeyOf(d.a, n) = KeyOf(c.a, n)

(* Each key is asked for in its turn.                                      *)
LEMMA AskedKeeps ==
  ASSUME NEW a, ImagesOK(a), NEW keys \in Seq(Keys), NEW known, NEW c, AskedFor(a, keys, known, c),
         NEW k \in ToSet(keys)
  PROVE  AskedFor(a, keys, known, Asked(known, c, k)) /\ AskedAlso(known, c, k, Asked(known, c, k))
<1> DEFINE d == Asked(known, c, k)
           r == Request(c.a, k)
           n0 == r.entry[k]
<1>0. k \in Keys /\ c \in [a : Assets, handles : Seq(Nat)]
  BY MembersOf DEF AskedFor
<1>1. CASE k \in known
  <2>1. d = c
    BY <1>1 DEF Asked
  <2> QED
    BY <1>0, <1>1, <2>1 DEF AskedAlso
<1>2. CASE k \notin known
  <2>1. d = [a |-> r, handles |-> Append(c.handles, n0)]
    BY <1>2 DEF Asked
  <2>2. /\ ImagesOK(r) /\ Asks(c.a, r) /\ n0 \in HandlesFor(r, {k})
        /\ \A n \in Handles(r) \ Handles(c.a) : n = n0
    BY <1>0, RequestFacts DEF AskedFor
  <2>3. Asks(a, r)
    BY <2>2, AsksTrans DEF AskedFor
  <2>4. n0 \in Handles(r) /\ KeyOf(r, n0) = k /\ n0 \in Nat
    BY <2>2, ImageFacts DEF HandlesFor, ImagesOK
  <2>5. d.handles \in Seq(Nat) /\ ToSet(d.handles) = ToSet(c.handles) \cup {n0}
    BY <1>0, <2>1, <2>4, MembersOfAppend
  <2> HIDE DEF d, r, n0
  <2>6. d.a = r /\ d \in [a : Assets, handles : Seq(Nat)]
    BY <2>1, <2>2, <2>5 DEF ImagesOK
  <2>7. ASSUME NEW n \in ToSet(c.handles)
        PROVE  /\ n \in HandlesFor(r, ToSet(keys)) /\ r.entry[KeyOf(r, n)] = n /\ KeyOf(r, n) = KeyOf(c.a, n)
               /\ KeyOf(r, n) \notin known
    <3>1. n \in Handles(c.a) /\ KeyOf(c.a, n) \in ToSet(keys) /\ KeyOf(c.a, n) \in Keys /\ n # 0
          /\ c.a.entry[KeyOf(c.a, n)] = n /\ KeyOf(c.a, n) \notin known
      <4>1. n \in HandlesFor(c.a, ToSet(keys)) /\ c.a.entry[KeyOf(c.a, n)] = n /\ KeyOf(c.a, n) \notin known
        BY DEF AskedFor
      <4>2. n \in Handles(c.a) /\ KeyOf(c.a, n) \in ToSet(keys)
        BY <4>1 DEF HandlesFor
      <4>3. KeyOf(c.a, n) \in Keys /\ n # 0
        BY <4>2, ImageFacts DEF AskedFor, ImagesOK
      <4> QED
        BY <4>1, <4>2, <4>3
    <3>2. n \in Handles(r) /\ KeyOf(r, n) = KeyOf(c.a, n)
      BY <2>2, <3>1 DEF Asks, KeyOf
    <3>3. r.entry[KeyOf(c.a, n)] = n
      BY <2>2, <3>1 DEF Asks
    <3> QED
      BY <3>1, <3>2, <3>3 DEF HandlesFor
  <2>8. /\ n0 \in HandlesFor(r, ToSet(keys)) /\ r.entry[KeyOf(r, n0)] = n0
        /\ KeyOf(r, n0) \notin known
    BY <1>0, <1>2, <2>4 DEF HandlesFor, n0
  <2>9. Handles(r) \ Handles(a) \subseteq ToSet(d.handles)
    BY <2>2, <2>5 DEF AskedFor
  <2>10. AskedFor(a, keys, known, d)
    BY <2>2, <2>3, <2>5, <2>6, <2>7, <2>8, <2>9 DEF AskedFor
  <2> QED
    BY <2>4, <2>5, <2>6, <2>7, <2>10 DEF d, AskedAlso
<1> QED
  BY <1>1, <1>2

(* The fold as a run through its keys.                                     *)
LEMMA AskForRuns ==
  ASSUME NEW a, ImagesOK(a), NEW keys \in Seq(Keys), NEW known
  PROVE  \E g : /\ AskFor(a, keys, known) = g[Len(keys)]
                /\ g[0] = [a |-> a, handles |-> << >>]
                /\ \A n \in 1 .. Len(keys) : g[n] = Asked(known, g[n - 1], keys[n])
<1> DEFINE base == [a |-> a, handles |-> << >>]
           S == {c \in [a : Assets, handles : Seq(Nat)] : AskedFor(a, keys, known, c)}
           L == Len(keys)
           F == [n \in 1 .. L |-> [c \in S |-> Asked(known, c, keys[n])]]
<1>1. L \in Nat /\ \A n \in 1 .. L : keys[n] \in ToSet(keys)
  BY MembersOf
<1>2. base \in S
  <2>1. base.a = a /\ base.handles = << >> /\ base \in [a : Assets, handles : Seq(Nat)]
    BY DEF ImagesOK
  <2> HIDE DEF base
  <2> QED
    BY <2>1, AsksRefl, MembersOfNone DEF AskedFor
<1>3. ChainOn(S, L, F)
  <2>1. ASSUME NEW n \in 1 .. L, NEW c \in S PROVE Asked(known, c, keys[n]) \in S
    BY <1>1, AskedKeeps DEF AskedFor
  <2> HIDE DEF S, L
  <2> QED
    BY <2>1 DEF ChainOn
<1>4. PICK f \in [0 .. L -> S] : f[0] = base /\ \A n \in 1 .. L : f[n] = F[n][f[n - 1]]
  <2> HIDE DEF S, L, F, base
  <2>1. HasChain(S, L, base, F)
    BY <1>1, <1>2, <1>3, ChainExists
  <2> QED
    BY <2>1, Zenon DEF HasChain
<1>5. \A n \in 1 .. L : f[n] = Asked(known, f[n - 1], keys[n])
  <2> HIDE DEF S
  <2>1. ASSUME NEW n \in 1 .. L PROVE n - 1 \in 0 .. L
    BY <1>1
  <2> QED
    BY <1>4, <2>1
<1> DEFINE Step(g) == [n \in 0 .. L |-> IF n = 0 THEN base ELSE Asked(known, g[n - 1], keys[n])]
<1>6. f = Step(f)
  <2> HIDE DEF S, base
  <2>1. ASSUME NEW n \in 0 .. L PROVE f[n] = IF n = 0 THEN base ELSE Asked(known, f[n - 1], keys[n])
    <3>1. n = 0 \/ n \in 1 .. L
      BY <1>1
    <3> QED
      BY <1>4, <1>5, <3>1
  <2> QED
    BY <1>4, <2>1
<1>7. PICK g : g = Step(g) /\ AskFor(a, keys, known) = g[L]
  BY <1>6 DEF AskFor, Through
<1>8. g[0] = base /\ \A n \in 1 .. L : g[n] = Asked(known, g[n - 1], keys[n])
  <2> HIDE DEF base
  <2>1. 0 \in 0 .. L /\ \A n \in 1 .. L : n \in 0 .. L /\ n # 0
    BY <1>1
  <2>2. ASSUME NEW n \in 0 .. L PROVE g[n] = IF n = 0 THEN base ELSE Asked(known, g[n - 1], keys[n])
    BY <1>7
  <2> QED
    BY <2>1, <2>2
<1> QED
  BY <1>7, <1>8

(* request_batch and request_uncached: a handle for each key that is not   *)
(* known.                                                                  *)
LEMMA AskForFacts ==
  ASSUME NEW a, ImagesOK(a), NEW keys \in Seq(Keys), NEW known
  PROVE  LET c == AskFor(a, keys, known)
         IN  /\ AskedFor(a, keys, known, c)
             /\ \A k \in ToSet(keys) : k \notin known => \E n \in ToSet(c.handles) : KeyOf(c.a, n) = k
<1> DEFINE Found(c, k) == k \notin known => \E n \in ToSet(c.handles) : KeyOf(c.a, n) = k
<1>1. PICK g : /\ AskFor(a, keys, known) = g[Len(keys)]
               /\ g[0] = [a |-> a, handles |-> << >>]
               /\ \A n \in 1 .. Len(keys) : g[n] = Asked(known, g[n - 1], keys[n])
  BY AskForRuns
<1> DEFINE T == {n \in 0 .. Len(keys) : AskedFor(a, keys, known, g[n]) /\ \A i \in 1 .. n : Found(g[n], keys[i])}
<1>2. Len(keys) \in Nat /\ \A n \in 1 .. Len(keys) : keys[n] \in ToSet(keys)
  BY MembersOf
<1>3. 0 \in T
  <2> DEFINE base == [a |-> a, handles |-> << >>]
  <2>1. base.a = a /\ base.handles = << >> /\ base \in [a : Assets, handles : Seq(Nat)]
    BY DEF ImagesOK
  <2>2. g[0] = base
    BY <1>1
  <2> HIDE DEF base
  <2>3. AskedFor(a, keys, known, base)
    BY <2>1, AsksRefl, MembersOfNone DEF AskedFor
  <2> QED
    BY <1>2, <2>2, <2>3
<1>4. ASSUME NEW n \in 1 .. Len(keys), n - 1 \in T PROVE n \in T
  <2>1. AskedFor(a, keys, known, g[n - 1]) /\ \A i \in 1 .. n - 1 : Found(g[n - 1], keys[i])
    BY <1>4
  <2>2. g[n] = Asked(known, g[n - 1], keys[n]) /\ keys[n] \in ToSet(keys)
    BY <1>1, <1>2
  <2> HIDE DEF T
  <2>3. /\ AskedFor(a, keys, known, g[n]) /\ Found(g[n], keys[n])
        /\ \A m \in ToSet(g[n - 1].handles) : m \in ToSet(g[n].handles) /\ KeyOf(g[n].a, m) = KeyOf(g[n - 1].a, m)
    <3>1. AskedFor(a, keys, known, g[n]) /\ AskedAlso(known, g[n - 1], keys[n], g[n])
      BY <2>1, <2>2, AskedKeeps
    <3> QED
      BY <3>1 DEF AskedAlso
  <2>4. ASSUME NEW i \in 1 .. n PROVE Found(g[n], keys[i])
    <3>1. i \in 1 .. n - 1 \/ i = n
      BY <1>2
    <3> QED
      BY <2>1, <2>3, <3>1
  <2> QED
    BY <1>2, <2>3, <2>4 DEF T
<1>5. Len(keys) \in T
  <2> HIDE DEF T
  <2> QED
    BY <1>2, <1>3, <1>4, Climb
<1>6. \A k \in ToSet(keys) : \E i \in 1 .. Len(keys) : k = keys[i]
  BY MembersOf
<1> QED
  BY <1>1, <1>5, <1>6

(* A later state of the images: handles and textures stay, and what was    *)
(* settled is settled.                                                     *)
Later(a, x) ==
  /\ \A n \in Handles(a) : /\ n \in Handles(x) /\ KeyOf(x, n) = KeyOf(a, n)
                           /\ a.images[n].status = "Waiting" \/ x.images[n].status = a.images[n].status
  /\ a.refused \subseteq x.refused
  /\ \A k \in Keys : /\ x.entry[k] \in Handles(a) => x.entry[k] = a.entry[k]
                     /\ Cached(a, k) => x.texture[k] = a.texture[k]

(* Later than later.                                                       *)
LEMMA LaterTrans ==
  ASSUME NEW a, NEW x, NEW y, Later(a, x), Later(x, y) PROVE Later(a, y)
<1>1. ASSUME NEW n \in Handles(a)
      PROVE  /\ n \in Handles(y) /\ KeyOf(y, n) = KeyOf(a, n)
             /\ a.images[n].status = "Waiting" \/ y.images[n].status = a.images[n].status
  BY DEF Later
<1>2. ASSUME NEW k \in Keys
      PROVE  /\ y.entry[k] \in Handles(a) => y.entry[k] = a.entry[k]
             /\ Cached(a, k) => y.texture[k] = a.texture[k]
  BY DEF Later, Cached
<1>3. a.refused \subseteq y.refused
  BY DEF Later
<1> QED
  BY <1>1, <1>2, <1>3 DEF Later

(* What stays.                                                             *)
LEMMA LaterFacts ==
  ASSUME NEW a, NEW x, ImagesOK(a), Later(a, x)
  PROVE  /\ Handles(a) \subseteq Handles(x)
         /\ \A S : HandlesFor(a, S) \subseteq HandlesFor(x, S)
         /\ \A n \in Handles(a) : KeyOf(x, n) = KeyOf(a, n) /\ (Settled(a, n) => Settled(x, n))
         /\ \A k \in Keys : Cached(a, k) => Cached(x, k)
<1>1. \A k \in Keys : Cached(a, k) => Cached(x, k)
  BY DEF Later, Cached
<1>2. \A n \in Handles(a) : n \in Handles(x) /\ KeyOf(x, n) = KeyOf(a, n) /\ KeyOf(a, n) \in Keys
  BY ImageFacts DEF Later, ImagesOK
<1>3. ASSUME NEW n \in Handles(a), Settled(a, n), x.entry[KeyOf(x, n)] = n
      PROVE  x.images[n].status = "Failed" \/ KeptIn(x, KeyOf(x, n))
  <2> DEFINE k == KeyOf(a, n)
  <2>1. k \in Keys /\ KeyOf(x, n) = k /\ x.entry[k] = n /\ a.entry[k] = n
    BY <1>2, <1>3 DEF Later
  <2>2. a.images[n].status = "Failed" \/ KeptIn(a, k)
    BY <1>3, <2>1 DEF Settled
  <2>3. CASE a.images[n].status = "Failed"
    BY <2>3 DEF Later
  <2>4. CASE KeptIn(a, k)
    <3>1. CASE a.texture[k] = Raw
      <4>1. Cached(a, k)
        BY <3>1 DEF Cached, Raw, NoTexture
      <4> QED
        BY <2>1, <3>1, <4>1 DEF Later, KeptIn
    <3>2. CASE a.texture[k] # Raw
      BY <2>1, <2>4, <3>2 DEF Later, KeptIn
    <3> QED
      BY <3>1, <3>2
  <2> QED
    BY <2>2, <2>3, <2>4
<1>4. \A n \in Handles(a) : Settled(a, n) => Settled(x, n)
  BY <1>3 DEF Settled
<1> QED
  BY <1>1, <1>2, <1>4 DEF HandlesFor

(* Uploads go on.                                                          *)
LEMMA UploadedIsLater ==
  ASSUME NEW a, NEW x, ImagesOK(a), Uploaded(a, x) PROVE Later(a, x)
<1>1. x.images = a.images /\ Handles(x) = Handles(a) /\ \A n \in Handles(a) : n # 0
  BY ImageFacts DEF Uploaded, SameRest, Handles, ImagesOK
<1> QED
  BY <1>1 DEF Uploaded, Later, KeyOf

(* And so do questions.                                                    *)
LEMMA AskedIsLater ==
  ASSUME NEW a, NEW x, ImagesOK(a), Asks(a, x) PROVE Later(a, x)
<1>1. \A n \in Handles(a) : n # 0
  BY ImageFacts DEF ImagesOK
<1> QED
  BY <1>1 DEF Asks, Later, KeyOf
-----------------------------------------------------------------------------
(* Image n has been dealt with: a texture, or its file was at fault.       *)
Dealt(a, n, x) ==
  /\ Uploaded(a, x) /\ Settled(x, n) /\ (Good(KeyOf(a, n)) => Cached(x, KeyOf(a, n)))
  /\ \A k \in Keys \ {KeyOf(a, n)} : Cached(x, k) => Cached(a, k)

(* A batch that takes images.                                              *)
Takes(a, b) == b \in {ByKey, Automatic} \/ (b \notin {ByKey, Automatic} /\ a.batches[b] = "open")

(* The image of a key with a texture, or without a good file, may go.      *)
LEMMA EmptiedIsUploaded ==
  ASSUME NEW a \in Assets, NEW x, Uploaded(a, x), NEW k \in Keys, Cached(x, k) \/ ~Good(k)
  PROVE  LET y == [x EXCEPT !.entry = [x.entry EXCEPT ![k] = 0]]
         IN  /\ Uploaded(a, y) /\ y.entry[k] = 0 /\ y.texture = x.texture /\ y.refused = x.refused
<1> DEFINE e == [x.entry EXCEPT ![k] = 0]
           y == [x EXCEPT !.entry = e]
<1>1. x \in Assets /\ x.entry \in [Keys -> Nat]
  BY DEF Uploaded, Assets
<1>2. e \in [Keys -> Nat] /\ e[k] = 0 /\ \A j \in Keys \ {k} : e[j] = x.entry[j]
  BY <1>1
<1> HIDE DEF e
<1>3. /\ y \in Assets /\ y.entry = e /\ y.images = x.images /\ y.pending = x.pending /\ y.cleanups = x.cleanups
      /\ y.batches = x.batches /\ y.armed = x.armed /\ y.dropped = x.dropped
      /\ y.texture = x.texture /\ y.refused = x.refused
  BY <1>1, <1>2 DEF Assets
<1> HIDE DEF y
<1>4. ASSUME NEW j \in Keys
      PROVE  /\ y.entry[j] = a.entry[j] \/ y.entry[j] = 0
             /\ Cached(a, j) => y.texture[j] = a.texture[j]
             /\ Cached(y, j) => Cached(a, j) \/ Good(j)
             /\ Good(j) /\ ~Cached(y, j) => y.entry[j] = a.entry[j]
  BY <1>2, <1>3 DEF Uploaded, Cached
<1>5. SameRest(a, y) /\ a.refused \subseteq y.refused
  BY <1>3 DEF Uploaded, SameRest
<1>6. Uploaded(a, y)
  BY <1>3, <1>4, <1>5 DEF Uploaded
<1> QED
  BY <1>2, <1>3, <1>6 DEF y, e

(* One ready image is dealt with.                                          *)
LEMMA UploadOneFacts ==
  ASSUME NEW a, ImagesOK(a), NEW n \in Handles(a), IsReady(a, n), NEW b, Takes(a, b)
  PROVE  Dealt(a, n, UploadOne(a, n, b))
<1> DEFINE x == UploadPrepared(a, n)
           k == KeyOf(a, n)
           y == UploadOne(a, n, b)
<1>0. a \in Assets /\ k \in Keys /\ n # 0
  BY ImageFacts DEF ImagesOK
<1>1. CASE ~HasImage(a, n)
  <2>1. y = a
    BY <1>1 DEF UploadOne
  <2>2. a.images[n].status = "Failed" /\ ~Good(k)
    BY <1>0, <1>1, ImageFacts DEF HasImage, IsReady, ImagesOK, Good
  <2> QED
    BY <1>0, <2>1, <2>2, UploadedRefl DEF Dealt, Settled
<1>2. CASE HasImage(a, n)
  <2>1. /\ Uploaded(a, x) /\ x.entry = a.entry
        /\ Cached(x, k) <=> Good(k)
        /\ ~Good(k) => n \in x.refused
        /\ \A j \in Keys \ {k} : Cached(x, j) => Cached(a, j)
    BY <1>2, PreparedFacts
  <2>2. x.images = a.images /\ KeyOf(x, n) = k /\ x.batches = a.batches
    BY <2>1 DEF Uploaded, SameRest, KeyOf
  <2> DEFINE e == [x EXCEPT !.entry = [x.entry EXCEPT ![k] = 0]]
  <2>3. /\ Uploaded(a, e) /\ e.entry[k] = 0 /\ e.texture = x.texture /\ e.refused = x.refused
    BY <1>0, <2>1, EmptiedIsUploaded
  <2>4. KeyOf(e, n) = k
    BY <2>3 DEF Uploaded, SameRest, KeyOf
  <2>5. y = e \/ (y = x /\ (x.entry[k] = n => ~Good(k)))
    <3> HIDE DEF x
    <3>1. CASE b = ByKey
      <4>1. y = IF Cached(x, k) THEN ReleasePrepared(x, k) ELSE x
        BY <1>2, <3>1 DEF UploadOne, x
      <4>2. CASE ~Good(k)
        BY <2>1, <4>1, <4>2
      <4>3. CASE Good(k)
        <5>1. y = IF Resident(x, k) THEN e ELSE x
          BY <2>1, <4>1, <4>3 DEF ReleasePrepared
        <5>2. x.entry[k] = n => Resident(x, k)
          BY <1>0, <1>2, <2>2 DEF Resident, HasImage
        <5> QED
          BY <5>1, <5>2
      <4> QED
        BY <4>2, <4>3
    <3>2. CASE b # ByKey
      <4>1. y = ReleaseIfMatches(x, n)
        <5> DEFINE r == ReleaseIfMatches(x, n)
        <5>1. r.batches = a.batches
          BY <2>2 DEF ReleaseIfMatches
        <5>2. b = Automatic \/ a.batches[b] = "open"
          BY <3>2 DEF Takes
        <5> HIDE DEF r
        <5>3. b # Automatic => Enqueue(r, b, n) = r
          BY <5>1, <5>2 DEF Enqueue
        <5> QED
          BY <1>2, <3>2, <5>3 DEF UploadOne, x, r
      <4>2. y = IF x.entry[k] = n THEN e ELSE x
        BY <1>2, <2>2, <4>1 DEF ReleaseIfMatches, HasImage
      <4> QED
        BY <4>2
    <3> QED
      BY <3>1, <3>2
  <2> HIDE DEF x, e, y, k
  <2>6. CASE y = e
    <3>1. \A j : Cached(e, j) <=> Cached(x, j)
      BY <2>3 DEF Cached
    <3> QED
      BY <1>0, <2>1, <2>3, <2>4, <2>6, <3>1 DEF Dealt, Settled, y, k
  <2>7. CASE y = x /\ (x.entry[k] = n => ~Good(k))
    <3>1. Settled(x, n)
      BY <2>1, <2>2, <2>7 DEF Settled, KeptIn
    <3> QED
      BY <2>1, <2>7, <3>1 DEF Dealt, y, k
  <2> QED
    BY <2>5, <2>6, <2>7
<1> QED
  BY <1>1, <1>2

(* Those of some handles whose key has a texture are settled.              *)
Tidy(a, H) == \A n \in H : Cached(a, KeyOf(a, n)) => Settled(a, n)
(* While its good key has no texture, the image of the key is n, or        *)
(* nobody's in H.                                                          *)
Mine(a, H, n) ==
  Good(KeyOf(a, n)) /\ ~Cached(a, KeyOf(a, n))
    => a.entry[KeyOf(a, n)] = n \/ a.entry[KeyOf(a, n)] \notin H

(* What was tidy stays tidy.                                               *)
LEMMA DealtStaysTidy ==
  ASSUME NEW a, ImagesOK(a), NEW n \in Handles(a), NEW x, Dealt(a, n, x),
         NEW H \in SUBSET Handles(a), Mine(a, H, n), Tidy(a, H)
  PROVE  Tidy(x, H)
<1> SUFFICES ASSUME NEW m \in H, Cached(x, KeyOf(x, m)) PROVE Settled(x, m)
  BY DEF Tidy
<1> DEFINE k == KeyOf(a, n)
           j == KeyOf(a, m)
<1>1. k \in Keys /\ j \in Keys /\ m # 0 /\ m \in Handles(a)
  BY ImageFacts DEF ImagesOK
<1>2. Later(a, x) /\ Uploaded(a, x)
  BY UploadedIsLater DEF Dealt
<1>3. KeyOf(x, m) = j /\ KeyOf(x, n) = k
  BY <1>1, <1>2 DEF Later
<1>4. CASE Cached(a, j)
  BY <1>1, <1>2, <1>4, LaterFacts DEF Tidy
<1>5. CASE ~Cached(a, j)
  <2>1. j = k /\ Good(k)
    BY <1>1, <1>2, <1>3, <1>5 DEF Dealt, Uploaded
  <2>2. a.entry[k] = n \/ a.entry[k] \notin H
    BY <1>5, <2>1 DEF Mine
  <2>3. x.entry[k] = a.entry[k] \/ x.entry[k] = 0
    BY <1>1, <1>2 DEF Uploaded
  <2>4. Settled(x, n)
    BY DEF Dealt
  <2> QED
    BY <1>1, <1>3, <2>1, <2>2, <2>3, <2>4 DEF Settled
<1> QED
  BY <1>4, <1>5

(* And what was not in the way.                                            *)
LEMMA MineStays ==
  ASSUME NEW a, ImagesOK(a), NEW x, Uploaded(a, x), NEW H, NEW n \in Handles(a), Mine(a, H, n)
  PROVE  Mine(x, H, n)
<1>1. KeyOf(x, n) = KeyOf(a, n) /\ KeyOf(a, n) \in Keys
  BY ImageFacts DEF ImagesOK, Uploaded, SameRest, KeyOf
<1>2. Cached(a, KeyOf(a, n)) => Cached(x, KeyOf(a, n))
  BY <1>1 DEF Uploaded, Cached
<1> QED
  BY <1>1, <1>2 DEF Mine, Uploaded
-----------------------------------------------------------------------------
(* Only images of these handles were uploaded.                             *)
OnlyOf(a, hs, x) ==
  \A k \in Keys : Cached(x, k) => Cached(a, k) \/ \E n \in ToSet(hs) : KeyOf(a, n) = k
(* In the middle of an upload.                                             *)
UploadedSoFar(a, hs, H, x) ==
  /\ Uploaded(a, x) /\ (Tidy(a, H) => Tidy(x, H))
  /\ OnlyOf(a, hs, x)
(* What an upload needs.                                                   *)
MayUpload(a, hs, H, b) ==
  /\ ToSet(hs) \subseteq H /\ H \subseteq Handles(a)
  /\ \A n \in ToSet(hs) : Mine(a, H, n)
  /\ hs = << >> \/ Takes(a, b)

(* One image more.                                                         *)
LEMMA OneMoreUploaded ==
  ASSUME NEW a, ImagesOK(a), NEW hs \in Seq(Nat), NEW H, NEW b, MayUpload(a, hs, H, b),
         NEW x, UploadedSoFar(a, hs, H, x), NEW n \in ToSet(hs), IsReady(a, n)
  PROVE  /\ UploadedSoFar(a, hs, H, UploadOne(x, n, b))
         /\ Dealt(x, n, UploadOne(x, n, b))
<1>1. n \in Handles(a) /\ H \in SUBSET Handles(a) /\ Mine(a, H, n) /\ Takes(a, b)
  <2>1. hs # << >>
    BY MembersOfNone
  <2> QED
    BY <2>1 DEF MayUpload
<1>2. ImagesOK(x) /\ Mine(x, H, n) /\ Handles(x) = Handles(a) /\ Takes(x, b) /\ IsReady(x, n)
  <2>1. Uploaded(a, x)
    BY DEF UploadedSoFar
  <2>2. ImagesOK(x) /\ Mine(x, H, n)
    BY <1>1, <2>1, UploadedImages, MineStays
  <2>3. x.images = a.images /\ x.batches = a.batches
    BY <2>1 DEF Uploaded, SameRest
  <2> QED
    BY <1>1, <2>2, <2>3 DEF Handles, Takes, IsReady
<1>3. Dealt(x, n, UploadOne(x, n, b))
  BY <1>1, <1>2, UploadOneFacts
<1>4. Uploaded(a, UploadOne(x, n, b))
  BY <1>3, UploadedTrans DEF UploadedSoFar, Dealt
<1>5. Tidy(x, H) => Tidy(UploadOne(x, n, b), H)
  BY <1>1, <1>2, <1>3, DealtStaysTidy
<1>6. OnlyOf(a, hs, UploadOne(x, n, b))
  <2>1. KeyOf(x, n) = KeyOf(a, n)
    BY DEF UploadedSoFar, Uploaded, SameRest, KeyOf
  <2> QED
    BY <1>3, <2>1 DEF UploadedSoFar, Dealt, OnlyOf
<1> QED
  BY <1>3, <1>4, <1>5, <1>6 DEF UploadedSoFar

(* The upload as a run through its handles.                                *)
UploadsRun(a, hs, b, g) ==
  /\ UploadEach(a, hs, b) = g[Len(hs)] /\ g[0] = a
  /\ \A n \in 1 .. Len(hs) : g[n] = UploadOne(g[n - 1], hs[n], b)

(* There is one.                                                           *)
LEMMA UploadsRunExists ==
  ASSUME NEW a, ImagesOK(a), NEW hs \in Seq(Nat), NEW H, NEW b, MayUpload(a, hs, H, b),
         \A n \in ToSet(hs) : IsReady(a, n)
  PROVE  \E g : UploadsRun(a, hs, b, g)
<1> DEFINE S == {x \in Assets : UploadedSoFar(a, hs, H, x)}
           L == Len(hs)
           F == [n \in 1 .. L |-> [x \in S |-> UploadOne(x, hs[n], b)]]
<1>1. L \in Nat /\ \A n \in 1 .. L : hs[n] \in ToSet(hs)
  BY MembersOf
<1>2. a \in S
  BY UploadedRefl DEF ImagesOK, UploadedSoFar, OnlyOf
<1>3. ChainOn(S, L, F)
  <2>1. ASSUME NEW n \in 1 .. L, NEW x \in S PROVE UploadOne(x, hs[n], b) \in S
    <3>1. UploadedSoFar(a, hs, H, x) /\ hs[n] \in ToSet(hs) /\ IsReady(a, hs[n])
      BY <1>1
    <3>2. UploadedSoFar(a, hs, H, UploadOne(x, hs[n], b))
      BY <3>1, OneMoreUploaded
    <3> QED
      BY <3>2 DEF UploadedSoFar, Uploaded
  <2> HIDE DEF S, L
  <2> QED
    BY <2>1 DEF ChainOn
<1>4. PICK f \in [0 .. L -> S] : f[0] = a /\ \A n \in 1 .. L : f[n] = F[n][f[n - 1]]
  <2> HIDE DEF S, L, F
  <2>1. HasChain(S, L, a, F)
    BY <1>1, <1>2, <1>3, ChainExists
  <2> QED
    BY <2>1, Zenon DEF HasChain
<1>5. \A n \in 1 .. L : f[n] = UploadOne(f[n - 1], hs[n], b)
  <2> HIDE DEF S
  <2>1. ASSUME NEW n \in 1 .. L PROVE n - 1 \in 0 .. L
    BY <1>1
  <2> QED
    BY <1>4, <2>1
<1> DEFINE Step(g) == [n \in 0 .. L |-> IF n = 0 THEN a ELSE UploadOne(g[n - 1], hs[n], b)]
<1>6. f = Step(f)
  <2> HIDE DEF S
  <2>1. ASSUME NEW n \in 0 .. L PROVE f[n] = IF n = 0 THEN a ELSE UploadOne(f[n - 1], hs[n], b)
    <3>1. n = 0 \/ n \in 1 .. L
      BY <1>1
    <3> QED
      BY <1>4, <1>5, <3>1
  <2> QED
    BY <1>4, <2>1
<1>7. PICK g : g = Step(g) /\ UploadEach(a, hs, b) = g[L]
  BY <1>6 DEF UploadEach, Through
<1>8. g[0] = a /\ \A n \in 1 .. L : g[n] = UploadOne(g[n - 1], hs[n], b)
  <2>1. 0 \in 0 .. L /\ \A n \in 1 .. L : n \in 0 .. L /\ n # 0
    BY <1>1
  <2>2. ASSUME NEW n \in 0 .. L PROVE g[n] = IF n = 0 THEN a ELSE UploadOne(g[n - 1], hs[n], b)
    BY <1>7
  <2> QED
    BY <2>1, <2>2
<1> QED
  BY <1>7, <1>8 DEF UploadsRun

(* What an upload has done at its end.                                     *)
Done(a, n, x) == Settled(x, n) /\ (Good(KeyOf(a, n)) => Cached(x, KeyOf(a, n)))
AllDealt(a, hs, H, x) == UploadedSoFar(a, hs, H, x) /\ \A n \in ToSet(hs) : Done(a, n, x)

(* What is done stays done.                                                *)
LEMMA DoneStays ==
  ASSUME NEW a, ImagesOK(a), NEW x, Uploaded(a, x), NEW y, Uploaded(x, y), NEW n \in Handles(a), Done(a, n, x)
  PROVE  Done(a, n, y)
<1>1. ImagesOK(x) /\ Later(x, y) /\ n \in Handles(x)
  BY UploadedImages, UploadedIsLater DEF Uploaded, SameRest, Handles
<1>2. KeyOf(a, n) \in Keys
  BY ImageFacts DEF ImagesOK
<1> QED
  BY <1>1, <1>2, LaterFacts DEF Done

(* upload_ready and upload_one_and_release deal with every handle.         *)
LEMMA UploadEachFacts ==
  ASSUME NEW a, ImagesOK(a), NEW hs \in Seq(Nat), NEW H, NEW b, MayUpload(a, hs, H, b),
         \A n \in ToSet(hs) : IsReady(a, n)
  PROVE  AllDealt(a, hs, H, UploadEach(a, hs, b))
<1>1. PICK g : UploadsRun(a, hs, b, g)
  BY UploadsRunExists
<1> DEFINE T == {n \in 0 .. Len(hs) : UploadedSoFar(a, hs, H, g[n]) /\ \A i \in 1 .. n : Done(a, hs[i], g[n])}
<1>2. Len(hs) \in Nat /\ \A n \in 1 .. Len(hs) : hs[n] \in ToSet(hs) /\ hs[n] \in Handles(a)
  BY MembersOf DEF MayUpload
<1>3. 0 \in T
  BY <1>1, <1>2, UploadedRefl DEF UploadsRun, UploadedSoFar, ImagesOK, OnlyOf
<1>4. ASSUME NEW n \in 1 .. Len(hs), n - 1 \in T PROVE n \in T
  <2>1. UploadedSoFar(a, hs, H, g[n - 1]) /\ \A i \in 1 .. n - 1 : Done(a, hs[i], g[n - 1])
    BY <1>4
  <2>2. g[n] = UploadOne(g[n - 1], hs[n], b) /\ hs[n] \in ToSet(hs) /\ IsReady(a, hs[n])
    BY <1>1, <1>2 DEF UploadsRun
  <2> HIDE DEF T
  <2>3. UploadedSoFar(a, hs, H, g[n]) /\ Dealt(g[n - 1], hs[n], g[n])
    BY <2>1, <2>2, OneMoreUploaded
  <2>4. Uploaded(a, g[n - 1]) /\ Uploaded(g[n - 1], g[n])
    BY <2>1, <2>3 DEF UploadedSoFar, Dealt
  <2>5. Done(a, hs[n], g[n])
    BY <2>3, <2>4 DEF Dealt, Done, Uploaded, SameRest, KeyOf
  <2>6. ASSUME NEW i \in 1 .. n PROVE Done(a, hs[i], g[n])
    <3>1. i = n \/ (i \in 1 .. n - 1 /\ i \in 1 .. Len(hs))
      BY <1>2
    <3> QED
      BY <1>2, <2>1, <2>4, <2>5, <3>1, DoneStays
  <2> QED
    BY <1>2, <2>3, <2>6 DEF T
<1>5. Len(hs) \in T
  <2> HIDE DEF T
  <2> QED
    BY <1>2, <1>3, <1>4, Climb
<1>6. \A n \in ToSet(hs) : \E i \in 1 .. Len(hs) : n = hs[i]
  BY MembersOf
<1> QED
  BY <1>1, <1>5, <1>6 DEF UploadsRun, AllDealt
-----------------------------------------------------------------------------
(* The loop of pump_uploads and of advance: what it has not seen or has    *)
(* put back.                                                               *)
Looks == [a : Assets, left : Nat, rest : Seq(Nat), back : Seq(Nat), failed : BOOLEAN]
Unseen(c) == ToSet(c.rest) \cup ToSet(c.back)
(* One of the handles is of a faulty file.                                 *)
Bad(a, hs) == \E n \in ToSet(hs) : ~Good(KeyOf(a, n))
(* In the middle of the loop.                                              *)
LookedSoFar(a, hs, H, c) ==
  /\ c \in Looks /\ Uploaded(a, c.a) /\ Tidy(c.a, H) /\ OnlyOf(a, hs, c.a)
  /\ Unseen(c) \subseteq ToSet(hs) /\ (c.failed => Bad(a, hs))
(* A handle the loop is past is put back or done; and it goes on.          *)
Passed(a, c, n) == n \in Unseen(c) \/ (Settled(c.a, n) /\ (c.failed \/ Cached(c.a, KeyOf(a, n))))
LookedOn(c, d) == Uploaded(c.a, d.a) /\ Unseen(c) \subseteq Unseen(d) /\ (c.failed => d.failed)

(* One handle more.                                                        *)
LEMMA OneMoreLooked ==
  ASSUME NEW a, ImagesOK(a), NEW hs \in Seq(Nat), NEW H, NEW b, MayUpload(a, hs, H, b),
         NEW c, LookedSoFar(a, hs, H, c), NEW n \in ToSet(hs)
  PROVE  /\ LookedSoFar(a, hs, H, Looked(b, c, n)) /\ LookedOn(c, Looked(b, c, n))
         /\ Passed(a, Looked(b, c, n), n)
<1> DEFINE d == Looked(b, c, n)
           k == KeyOf(a, n)
<1>1. /\ c \in Looks /\ c = [a |-> c.a, left |-> c.left, rest |-> c.rest, back |-> c.back, failed |-> c.failed]
      /\ c.a \in Assets /\ c.left \in Nat /\ c.rest \in Seq(Nat) /\ c.back \in Seq(Nat) /\ c.failed \in BOOLEAN
  BY DEF LookedSoFar, Looks
<1>2. n \in Nat /\ n \in H /\ n \in Handles(a) /\ KeyOf(c.a, n) = k /\ c.a.images = a.images /\ n \in Handles(c.a)
  BY MembersOf DEF MayUpload, LookedSoFar, Uploaded, SameRest, KeyOf, Handles
<1>3. Uploaded(c.a, c.a) /\ ImagesOK(c.a)
  BY <1>1, UploadedRefl, UploadedImages DEF LookedSoFar
<1>4. CASE c.left = 0
  <2>1. d = [c EXCEPT !.rest = Append(c.rest, n)]
    BY <1>4 DEF Looked
  <2>2. Append(c.rest, n) \in Seq(Nat) /\ ToSet(Append(c.rest, n)) = ToSet(c.rest) \cup {n}
    BY <1>1, <1>2, MembersOfAppend
  <2>3. d \in Looks /\ d.a = c.a /\ d.failed = c.failed /\ Unseen(d) = Unseen(c) \cup {n}
    BY <1>1, <2>1, <2>2 DEF Looks, Unseen
  <2> HIDE DEF d
  <2> QED
    BY <1>3, <2>3 DEF LookedSoFar, LookedOn, Passed, d
<1>5. CASE c.left # 0 /\ Cached(c.a, k)
  <2>1. d = c
    BY <1>2, <1>5 DEF Looked
  <2>2. Settled(c.a, n)
    BY <1>2, <1>5 DEF LookedSoFar, Tidy
  <2> QED
    BY <1>3, <1>5, <2>1, <2>2 DEF LookedOn, Passed
<1>6. CASE c.left # 0 /\ ~Cached(c.a, k) /\ ~IsReady(c.a, n)
  <2>1. d = [c EXCEPT !.back = Append(c.back, n)]
    BY <1>2, <1>6 DEF Looked
  <2>2. Append(c.back, n) \in Seq(Nat) /\ ToSet(Append(c.back, n)) = ToSet(c.back) \cup {n}
    BY <1>1, <1>2, MembersOfAppend
  <2>3. d \in Looks /\ d.a = c.a /\ d.failed = c.failed /\ Unseen(d) = Unseen(c) \cup {n}
    BY <1>1, <2>1, <2>2 DEF Looks, Unseen
  <2> HIDE DEF d
  <2> QED
    BY <1>3, <2>3 DEF LookedSoFar, LookedOn, Passed, d
<1>7. CASE c.left # 0 /\ ~Cached(c.a, k) /\ IsReady(c.a, n)
  <2> DEFINE x == UploadOne(c.a, n, b)
             fails == ~HasImage(c.a, n) \/ k \in faults.unusable
  <2>1. d = [c EXCEPT !.a = x, !.left = c.left - 1, !.failed = c.failed \/ fails]
    BY <1>2, <1>7 DEF Looked
  <2>2. UploadedSoFar(a, hs, H, c.a) /\ IsReady(a, n)
    BY <1>2, <1>7 DEF LookedSoFar, UploadedSoFar, IsReady
  <2>3. UploadedSoFar(a, hs, H, x) /\ Dealt(c.a, n, x)
    BY <2>2, OneMoreUploaded
  <2> HIDE DEF x
  <2>4. Uploaded(a, x) /\ Uploaded(c.a, x) /\ Settled(x, n) /\ (Good(k) => Cached(x, k)) /\ OnlyOf(a, hs, x)
    BY <1>2, <2>3 DEF UploadedSoFar, Dealt
  <2>5. Tidy(x, H)
    <3>1. Tidy(c.a, H)
      BY DEF LookedSoFar
    <3>2. UploadOne(c.a, n, b) = x
      BY DEF x
    <3>3. Mine(c.a, H, n) /\ H \in SUBSET Handles(c.a)
      <4>1. Uploaded(a, c.a) /\ Mine(a, H, n)
        BY DEF LookedSoFar, MayUpload
      <4> QED
        BY <1>2, <4>1, MineStays DEF MayUpload, Handles
    <3> QED
      BY <1>2, <1>3, <2>3, <3>1, <3>3, DealtStaysTidy
  <2>6. fails <=> ~Good(k)
    BY <1>2, <1>3, <1>7, ImageFacts DEF HasImage, IsReady, ImagesOK, Good
  <2> HIDE DEF fails
  <2>7. /\ d \in Looks /\ d.a = x /\ (d.failed <=> c.failed \/ fails) /\ d.rest = c.rest /\ d.back = c.back
    <3> DEFINE v == c.failed \/ fails
               left == c.left - 1
    <3>1. v \in BOOLEAN /\ left \in Nat /\ x \in Assets
      <4>1. left \in Nat
        BY <1>1, <1>7
      <4>2. v \in BOOLEAN
        BY Zenon
      <4> QED
        BY <2>4, <4>1, <4>2 DEF Uploaded
    <3>2. d = [c EXCEPT !.a = x, !.left = left, !.failed = v]
      BY <2>1
    <3>3. v <=> c.failed \/ fails
      OBVIOUS
    <3> HIDE DEF v, left, d
    <3>4. /\ d.a = x /\ d.left = left /\ d.rest = c.rest /\ d.back = c.back /\ d.failed = v
          /\ d = [a |-> x, left |-> left, rest |-> c.rest, back |-> c.back, failed |-> v]
      BY <1>1, <3>2 DEF Looks
    <3>5. d \in Looks
      BY <1>1, <3>1, <3>4 DEF Looks
    <3> QED
      BY <3>3, <3>4, <3>5
  <2> HIDE DEF d
  <2>8. Unseen(d) = Unseen(c)
    BY <2>7 DEF Unseen
  <2>9. ~Good(k) => Bad(a, hs)
    BY DEF Bad
  <2>10. LookedSoFar(a, hs, H, d)
    BY <2>4, <2>5, <2>6, <2>7, <2>8, <2>9 DEF LookedSoFar
  <2>11. LookedOn(c, d) /\ Passed(a, d, n)
    BY <2>4, <2>6, <2>7, <2>8 DEF LookedOn, Passed
  <2> QED
    BY <2>10, <2>11 DEF d
<1> QED
  BY <1>4, <1>5, <1>6, <1>7

(* Where the loop begins, and its run.                                     *)
LookAt(a, budget) == [a |-> a, left |-> budget, rest |-> << >>, back |-> << >>, failed |-> FALSE]
LooksRun(a, hs, budget, b, g) ==
  /\ LookThrough(a, hs, budget, b) = g[Len(hs)] /\ g[0] = LookAt(a, budget)
  /\ \A n \in 1 .. Len(hs) : g[n] = Looked(b, g[n - 1], hs[n])

(* It begins well.                                                         *)
LEMMA LookStarts ==
  ASSUME NEW a, ImagesOK(a), NEW budget \in Nat, NEW hs, NEW H, Tidy(a, H)
  PROVE  LookedSoFar(a, hs, H, LookAt(a, budget))
<1> DEFINE c == LookAt(a, budget)
<1>1. c.a = a /\ c.rest = << >> /\ c.back = << >> /\ c.failed = FALSE /\ a \in Assets
  BY DEF LookAt, ImagesOK
<1>2. c \in Looks
  BY <1>1, MembersOfNone DEF LookAt, Looks
<1> HIDE DEF c
<1>3. Unseen(c) = {}
  BY <1>1, MembersOfNone DEF Unseen
<1> QED
  BY <1>1, <1>2, <1>3, UploadedRefl DEF LookedSoFar, c, OnlyOf

(* There is a run.                                                         *)
LEMMA LooksRunExists ==
  ASSUME NEW a, ImagesOK(a), NEW hs \in Seq(Nat), NEW H, NEW b, MayUpload(a, hs, H, b), Tidy(a, H),
         NEW budget \in Nat
  PROVE  \E g : LooksRun(a, hs, budget, b, g)
<1> DEFINE S == {c \in Looks : LookedSoFar(a, hs, H, c)}
           L == Len(hs)
           base == LookAt(a, budget)
           F == [n \in 1 .. L |-> [c \in S |-> Looked(b, c, hs[n])]]
<1>1. L \in Nat /\ \A n \in 1 .. L : hs[n] \in ToSet(hs)
  BY MembersOf
<1>2. base \in S
  BY LookStarts DEF LookedSoFar
<1>3. ChainOn(S, L, F)
  <2>1. ASSUME NEW n \in 1 .. L, NEW c \in S PROVE Looked(b, c, hs[n]) \in S
    <3>1. LookedSoFar(a, hs, H, c) /\ hs[n] \in ToSet(hs)
      BY <1>1
    <3>2. LookedSoFar(a, hs, H, Looked(b, c, hs[n]))
      BY <3>1, OneMoreLooked
    <3> QED
      BY <3>2 DEF LookedSoFar
  <2> HIDE DEF S, L
  <2> QED
    BY <2>1 DEF ChainOn
<1>4. PICK f \in [0 .. L -> S] : f[0] = base /\ \A n \in 1 .. L : f[n] = F[n][f[n - 1]]
  <2> HIDE DEF S, L, F, base
  <2>1. HasChain(S, L, base, F)
    BY <1>1, <1>2, <1>3, ChainExists
  <2> QED
    BY <2>1, Zenon DEF HasChain
<1>5. \A n \in 1 .. L : f[n] = Looked(b, f[n - 1], hs[n])
  <2> HIDE DEF S
  <2>1. ASSUME NEW n \in 1 .. L PROVE n - 1 \in 0 .. L
    BY <1>1
  <2> QED
    BY <1>4, <2>1
<1> DEFINE Step(g) == [n \in 0 .. L |-> IF n = 0 THEN base ELSE Looked(b, g[n - 1], hs[n])]
<1>6. f = Step(f)
  <2> HIDE DEF S, base
  <2>1. ASSUME NEW n \in 0 .. L PROVE f[n] = IF n = 0 THEN base ELSE Looked(b, f[n - 1], hs[n])
    <3>1. n = 0 \/ n \in 1 .. L
      BY <1>1
    <3> QED
      BY <1>4, <1>5, <3>1
  <2> QED
    BY <1>4, <2>1
<1>7. PICK g : g = Step(g) /\ LookThrough(a, hs, budget, b) = g[L]
  BY <1>6 DEF LookThrough, Through, LookAt
<1>8. g[0] = base /\ \A n \in 1 .. L : g[n] = Looked(b, g[n - 1], hs[n])
  <2> HIDE DEF base
  <2>1. 0 \in 0 .. L /\ \A n \in 1 .. L : n \in 0 .. L /\ n # 0
    BY <1>1
  <2>2. ASSUME NEW n \in 0 .. L PROVE g[n] = IF n = 0 THEN base ELSE Looked(b, g[n - 1], hs[n])
    BY <1>7
  <2> QED
    BY <2>1, <2>2
<1> QED
  BY <1>7, <1>8 DEF LooksRun

(* What it is past it does not come back to.                               *)
LEMMA PassedStays ==
  ASSUME NEW a, ImagesOK(a), NEW hs, NEW H, NEW c, LookedSoFar(a, hs, H, c), NEW d, LookedOn(c, d),
         NEW n \in Handles(a), Passed(a, c, n)
  PROVE  Passed(a, d, n)
<1>1. ImagesOK(c.a) /\ Later(c.a, d.a) /\ n \in Handles(c.a)
  BY UploadedImages, UploadedIsLater DEF LookedSoFar, LookedOn, Uploaded, SameRest, Handles
<1>2. KeyOf(a, n) \in Keys
  BY ImageFacts DEF ImagesOK
<1>3. (Settled(c.a, n) => Settled(d.a, n)) /\ (Cached(c.a, KeyOf(a, n)) => Cached(d.a, KeyOf(a, n)))
  BY <1>1, <1>2, LaterFacts
<1> QED
  BY <1>3 DEF Passed, LookedOn

(* What is true at the end of such a loop. *)
LEMMA LookThroughFacts ==
  ASSUME NEW a, ImagesOK(a), NEW hs \in Seq(Nat), NEW H, NEW b, MayUpload(a, hs, H, b), Tidy(a, H),
         NEW budget \in Nat
  PROVE  /\ LookedSoFar(a, hs, H, LookThrough(a, hs, budget, b))
         /\ \A n \in ToSet(hs) : Passed(a, LookThrough(a, hs, budget, b), n)
<1>1. PICK g : LooksRun(a, hs, budget, b, g)
  BY LooksRunExists
<1> DEFINE T == {n \in 0 .. Len(hs) : LookedSoFar(a, hs, H, g[n]) /\ \A i \in 1 .. n : Passed(a, g[n], hs[i])}
<1>2. Len(hs) \in Nat /\ \A n \in 1 .. Len(hs) : hs[n] \in ToSet(hs) /\ hs[n] \in Handles(a)
  BY MembersOf DEF MayUpload
<1>3. 0 \in T
  BY <1>1, <1>2, LookStarts DEF LooksRun
<1>4. ASSUME NEW n \in 1 .. Len(hs), n - 1 \in T PROVE n \in T
  <2>1. LookedSoFar(a, hs, H, g[n - 1]) /\ \A i \in 1 .. n - 1 : Passed(a, g[n - 1], hs[i])
    BY <1>4
  <2>2. g[n] = Looked(b, g[n - 1], hs[n]) /\ hs[n] \in ToSet(hs)
    BY <1>1, <1>2 DEF LooksRun
  <2> HIDE DEF T
  <2>3. LookedSoFar(a, hs, H, g[n]) /\ LookedOn(g[n - 1], g[n]) /\ Passed(a, g[n], hs[n])
    BY <2>1, <2>2, OneMoreLooked
  <2>4. ASSUME NEW i \in 1 .. n PROVE Passed(a, g[n], hs[i])
    <3>1. i = n \/ (i \in 1 .. n - 1 /\ i \in 1 .. Len(hs))
      BY <1>2
    <3> QED
      BY <1>2, <2>1, <2>3, <3>1, PassedStays
  <2> QED
    BY <1>2, <2>3, <2>4 DEF T
<1>5. Len(hs) \in T
  <2> HIDE DEF T
  <2> QED
    BY <1>2, <1>3, <1>4, Climb
<1>6. \A n \in ToSet(hs) : \E i \in 1 .. Len(hs) : n = hs[i]
  BY MembersOf
<1> QED
  BY <1>1, <1>5, <1>6 DEF LooksRun

(* No key of the one is a key of the other.                                *)
Apart(a, up, bp) == \A m \in up, n \in bp : KeyOf(a, m) # KeyOf(a, n)

(* What is owed may be uploaded.                                           *)
LEMMA KeepTidy ==
  ASSUME NEW a, ImagesOK(a), NEW up, NEW bp, NEW o, KeepIn(a, up, bp, o),
         up \subseteq Handles(a), bp \subseteq Handles(a), Apart(a, up, bp)
  PROVE  Tidy(a, up \cup bp) /\ \A n \in up \cup bp : Mine(a, up \cup bp, n)
<1>1. Tidy(a, up \cup bp)
  BY DEF KeepIn, Tidy
<1>2. ASSUME NEW n \in up PROVE Mine(a, up \cup bp, n)
  BY <1>2 DEF KeepIn, Mine
<1>3. ASSUME NEW n \in bp, a.entry[KeyOf(a, n)] \in up \cup bp PROVE a.entry[KeyOf(a, n)] = n
  <2>1. /\ KeyOf(a, n) \in Keys
        /\ a.entry[KeyOf(a, n)] # 0
    BY <1>3, ImageFacts DEF ImagesOK
  <2>2. KeyOf(a, a.entry[KeyOf(a, n)]) = KeyOf(a, n)
    BY <2>1 DEF ImagesOK, HandlesFor
  <2> QED
    BY <1>3, <2>2 DEF KeepIn, Apart
<1> QED
  BY <1>1, <1>2, <1>3 DEF Mine

(* After an upload every image is still cared for.                         *)
LEMMA KeepUploaded ==
  ASSUME NEW a, ImagesOK(a), NEW up, NEW bp, NEW o, KeepIn(a, up, bp, o),
         up \subseteq Handles(a), bp \subseteq Handles(a),
         NEW x, Uploaded(a, x), Tidy(x, up \cup bp)
  PROVE  KeepIn(x, up, bp, o)
<1>1. Later(a, x) /\ Handles(x) = Handles(a)
  BY UploadedIsLater DEF Uploaded, SameRest, Handles
<1>2. \A n \in Handles(a) : KeyOf(x, n) = KeyOf(a, n) /\ KeyOf(a, n) \in Keys /\ (Settled(a, n) => Settled(x, n))
  BY <1>1, LaterFacts, ImageFacts DEF ImagesOK
<1>3. \A n \in Handles(x) : Settled(x, n) \/ n \in up \cup bp \cup o
  BY <1>1, <1>2 DEF KeepIn
<1>4. \A n \in up \cup bp : Cached(x, KeyOf(x, n)) => Settled(x, n)
  BY DEF Tidy
<1>5. ASSUME NEW n \in up, Good(KeyOf(x, n)), ~Cached(x, KeyOf(x, n)) PROVE x.entry[KeyOf(x, n)] = n
  <2>1. n \in Handles(a) /\ KeyOf(x, n) = KeyOf(a, n) /\ KeyOf(a, n) \in Keys
    BY <1>2
  <2>2. ~Cached(a, KeyOf(a, n))
    BY <1>1, <1>5, <2>1, LaterFacts
  <2>3. x.entry[KeyOf(a, n)] = a.entry[KeyOf(a, n)]
    BY <1>5, <2>1 DEF Uploaded
  <2> QED
    BY <1>5, <2>1, <2>2, <2>3 DEF KeepIn
<1>6. \A m, n \in bp : KeyOf(x, m) = KeyOf(x, n) => m = n
  BY <1>2 DEF KeepIn
<1> QED
  BY <1>3, <1>4, <1>5, <1>6 DEF KeepIn

(* What is settled need not be owed.                                       *)
LEMMA KeepLess ==
  ASSUME NEW a, NEW up, NEW bp, NEW o, KeepIn(a, up, bp, o),
         NEW up2 \in SUBSET up, NEW bp2 \in SUBSET bp, NEW o2,
         \A n \in up \cup bp \cup o : n \in up2 \cup bp2 \cup o2 \/ Settled(a, n)
  PROVE  KeepIn(a, up2, bp2, o2)
BY DEF KeepIn

(* What was asked for is owed by who asked.                                *)
LEMMA KeepAsked ==
  ASSUME NEW a, ImagesOK(a), NEW up, NEW bp, NEW o, KeepIn(a, up, bp, o),
         up \subseteq Handles(a), bp \subseteq Handles(a),
         NEW x, ImagesOK(x), Asks(a, x), NEW up2, NEW bp2, NEW o2,
         up \subseteq up2, bp2 = bp \/ (bp = {} /\ bp2 \subseteq Handles(x)), o \subseteq o2,
         \A n \in Handles(x) \ Handles(a) : n \in up2 \cup bp2 \cup o2 \/ Settled(x, n),
         \A n \in up2 \ up : x.entry[KeyOf(x, n)] = n /\ ~Cached(x, KeyOf(x, n)),
         \A n \in bp2 \ bp : x.entry[KeyOf(x, n)] = n /\ ~Cached(x, KeyOf(x, n))
  PROVE  KeepIn(x, up2, bp2, o2)
<1>1. Later(a, x)
  BY AskedIsLater
<1>2. \A n \in Handles(a) : /\ n \in Handles(x) /\ KeyOf(x, n) = KeyOf(a, n) /\ KeyOf(a, n) \in Keys
                            /\ (Settled(a, n) => Settled(x, n)) /\ n # 0
  BY <1>1, LaterFacts, ImageFacts DEF ImagesOK
<1>3. \A k : Cached(x, k) <=> Cached(a, k)
  BY DEF Asks, Cached
<1>4. \A n \in Handles(x) : Settled(x, n) \/ n \in up2 \cup bp2 \cup o2
  BY <1>2 DEF KeepIn
<1>5. \A n \in up2 \cup bp2 : Cached(x, KeyOf(x, n)) => Settled(x, n)
  <2>1. \A n \in up \cup bp : Cached(x, KeyOf(x, n)) => Settled(x, n)
    BY <1>2, <1>3 DEF KeepIn
  <2> QED
    BY <2>1
<1>6. \A n \in up2 : Good(KeyOf(x, n)) /\ ~Cached(x, KeyOf(x, n)) => x.entry[KeyOf(x, n)] = n
  <2>1. \A n \in up : Good(KeyOf(x, n)) /\ ~Cached(x, KeyOf(x, n)) => x.entry[KeyOf(x, n)] = n
    BY <1>2, <1>3 DEF KeepIn, Asks
  <2> QED
    BY <2>1
<1>7. \A m, n \in bp2 : KeyOf(x, m) = KeyOf(x, n) => m = n
  <2>1. CASE bp2 = bp
    BY <1>2, <2>1 DEF KeepIn
  <2>2. CASE bp = {}
    BY <2>2
  <2> QED
    BY <2>1, <2>2
<1> QED
  BY <1>4, <1>5, <1>6, <1>7 DEF KeepIn

(* Textures the cache has read itself disturb nothing.                     *)
LEMMA KeepLater ==
  ASSUME NEW a, ImagesOK(a), NEW up, NEW bp, NEW o, KeepIn(a, up, bp, o),
         up \subseteq Handles(a), bp \subseteq Handles(a),
         NEW x, Later(a, x), Handles(x) = Handles(a), x.entry = a.entry,
         \A k \in Keys : Cached(x, k) => Cached(a, k) \/ x.texture[k] = Raw
  PROVE  KeepIn(x, up, bp, o)
<1>1. \A n \in Handles(a) : KeyOf(x, n) = KeyOf(a, n) /\ KeyOf(a, n) \in Keys /\ (Settled(a, n) => Settled(x, n))
  BY LaterFacts, ImageFacts DEF ImagesOK
<1>2. \A k \in Keys : Cached(a, k) => Cached(x, k)
  BY LaterFacts
<1>3. \A n \in Handles(x) : Settled(x, n) \/ n \in up \cup bp \cup o
  BY <1>1 DEF KeepIn
<1>4. ASSUME NEW n \in up \cup bp, Cached(x, KeyOf(x, n)) PROVE Settled(x, n)
  <2>1. n \in Handles(a) /\ KeyOf(x, n) = KeyOf(a, n) /\ KeyOf(a, n) \in Keys
    BY <1>1
  <2>2. CASE Cached(a, KeyOf(a, n))
    BY <1>1, <2>1, <2>2 DEF KeepIn
  <2>3. CASE x.texture[KeyOf(x, n)] = Raw
    BY <2>3 DEF Settled, KeptIn
  <2> QED
    BY <1>4, <2>1, <2>2, <2>3
<1>5. \A n \in up : Good(KeyOf(x, n)) /\ ~Cached(x, KeyOf(x, n)) => x.entry[KeyOf(x, n)] = n
  BY <1>1, <1>2 DEF KeepIn
<1>6. \A m, n \in bp : KeyOf(x, m) = KeyOf(x, n) => m = n
  BY <1>1 DEF KeepIn
<1> QED
  BY <1>3, <1>4, <1>5, <1>6 DEF KeepIn
-----------------------------------------------------------------------------
(* What is there stays there.                                              *)
IsPlan(keys) == keys \in Seq(Keys)

(* Its members.                                                            *)
LEMMA PlanFacts == ASSUME NEW keys, IsPlan(keys) PROVE ToSet(keys) \subseteq Keys
BY MembersOf DEF IsPlan

(* What was covered stays covered.                                         *)
LEMMA CoverStays ==
  ASSUME NEW a, ImagesOK(a), NEW x, Later(a, x), NEW keys, IsPlan(keys), NEW S, S \subseteq Handles(a),
         Covered(a, keys, S)
  PROVE  Covered(x, keys, S)
BY PlanFacts, LaterFacts DEF Covered

(* A texture stays.                                                        *)
LEMMA AllInStays ==
  ASSUME NEW a, ImagesOK(a), NEW x, Later(a, x), NEW keys, IsPlan(keys), AllIn(a, keys)
  PROVE  AllIn(x, keys)
BY PlanFacts, LaterFacts DEF AllIn

(* A wait stays one for the same keys.                                     *)
LEMMA AwaitedStays ==
  ASSUME NEW a, ImagesOK(a), NEW x, Later(a, x), NEW keys, IsPlan(keys), NEW w, AwaitedOf(a, w, keys)
  PROVE  AwaitedOf(x, w, keys)
<1>1. ToSet(w) \subseteq Handles(a)
  BY DEF AwaitedOf, HandlesFor
<1>2. ToSet(w) \subseteq HandlesFor(x, ToSet(keys))
  BY LaterFacts DEF AwaitedOf
<1> QED
  BY <1>1, <1>2, CoverStays DEF AwaitedOf

(* A preload stays right while others go on.                               *)
LEMMA PreloadStays ==
  ASSUME NEW a, ImagesOK(a), NEW x, Later(a, x), NEW keys, IsPlan(keys), NEW p, PreloadOK(a, p, keys)
  PROVE  PreloadOK(x, p, keys)
<1>1. ToSet(p.pending) \subseteq HandlesFor(x, ToSet(keys))
  BY LaterFacts DEF PreloadOK
<1>2. ToSet(p.pending) \subseteq Handles(a)
  BY DEF PreloadOK, HandlesFor
<1>3. Covered(a, keys, ToSet(p.pending)) => Covered(x, keys, ToSet(p.pending))
  BY <1>2, CoverStays
<1> QED
  BY <1>1, <1>3 DEF PreloadOK

(* All of them.                                                            *)
Plans == 
  /\ IsPlan(TerrainKeys) /\ IsPlan(SelectKeys) /\ IsPlan(RouteKeys) /\ IsPlan(InitialKeys)
  /\ IsPlan(AnimationKeys) /\ IsPlan(MaskKeys) /\ IsPlan(InfoKeys) /\ IsPlan(IdleKeys)
  /\ IsPlan(WalkKeys) /\ IsPlan(BattleKeys) /\ IsPlan(FaceKeys)
(* By the assumption.                                                      *)
LEMMA PlansAreGiven == Plans
BY KeysAssumption DEF Plans, IsPlan

(* The handles stay right while the images go on.                          *)
LEMMA HandlesStay ==
  ASSUME NEW a, ImagesOK(a), NEW x, Later(a, x), NEW ph, NEW sp, NEW w, NEW b, HandlesIn(a, ph, sp, w, b),
         x.pending = a.pending, x.cleanups = a.cleanups
  PROVE  HandlesIn(x, ph, sp, w, b)
<1>1. \A S : HandlesFor(a, S) \subseteq HandlesFor(x, S)
  BY LaterFacts
<1>2. Handles(a) \subseteq Handles(x)
  BY LaterFacts
<1>3. /\ PreloadOK(x, sp.initial, InitialKeys) /\ PreloadOK(x, sp.animation, AnimationKeys)
      /\ PreloadOK(x, b.preload, BattleKeys)
  BY PreloadStays, PlansAreGiven DEF HandlesIn, Plans
<1>4. CleanupHandles(x) = CleanupHandles(a)
  BY DEF CleanupHandles
<1> QED
  BY <1>1, <1>2, <1>3, <1>4 DEF HandlesIn

(* And so does the battle.                                                 *)
LEMMA BattleStays ==
  ASSUME NEW a, ImagesOK(a), NEW x, Later(a, x), NEW b, BattleIn(a, b)
  PROVE  BattleIn(x, b)
<1>1. AllIn(a, BattleKeys) => AllIn(x, BattleKeys)
  BY AllInStays, PlansAreGiven DEF Plans
<1> QED
  BY <1>1 DEF BattleIn

(* A battle and the rest of the program never ask for the same key.        *)
LEMMA SetsApart ==
  ASSUME NEW a, ImagesOK(a), NEW ph, NEW sp, NEW w, NEW b, HandlesIn(a, ph, sp, w, b)
  PROVE  /\ Apart(a, UploadingOf(a, sp), ToSet(b.preload.pending))
         /\ Apart(a, UploadingOf(a, sp), CleanupHandles(a))
         /\ UploadingOf(a, sp) \subseteq Handles(a) /\ ToSet(b.preload.pending) \subseteq Handles(a)
         /\ CleanupHandles(a) \subseteq Handles(a)
<1> DEFINE M == MapKeys \cup ToSet(InitialKeys) \cup ToSet(AnimationKeys)
<1>1. M \cap ToSet(BattleKeys) = {}
  BY KeysAssumption DEF MapKeys, Marks
<1>2. UploadingOf(a, sp) \subseteq HandlesFor(a, M)
  BY DEF UploadingOf, HandlesIn, PreloadOK, HandlesFor, PendingKeys, MapKeys
<1>3. /\ ToSet(b.preload.pending) \subseteq HandlesFor(a, ToSet(BattleKeys))
      /\ CleanupHandles(a) \subseteq HandlesFor(a, ToSet(BattleKeys))
  BY DEF HandlesIn, PreloadOK
<1> HIDE DEF M
<1> QED
  BY <1>1, <1>2, <1>3 DEF HandlesFor, Apart

(* The states of a batch.                                                  *)
BatchStates == {"open", "sealed", "active"}

(* Their types, taken apart.                                               *)
LEMMA BatchTypes ==
  ASSUME NEW a \in Assets
  PROVE  /\ a.batches \in Seq(BatchStates) /\ Len(a.batches) \in Nat /\ DOMAIN a.batches = 1 .. Len(a.batches)
         /\ \A b \in DOMAIN a.batches : b \in Nat \ {0}
BY DEF Assets, BatchStates

(* What does not touch a batch.                                            *)
LEMMA BatchesSame ==
  ASSUME NEW a, NEW ps, BatchesIn(a, ps), NEW x, NEW qs,
         x.batches = a.batches, x.armed = a.armed, x.dropped = a.dropped, x.cleanups = a.cleanups,
         \A o \in Parts : qs[o].batch = ps[o].batch /\ (Complete(qs[o]) <=> Complete(ps[o]))
  PROVE  BatchesIn(x, qs)
BY DEF BatchesIn, Exists

(* The preload of part o begins. *)
LEMMA BatchBegins ==
  ASSUME NEW a \in Assets, NEW ps, BatchesIn(a, ps), NEW o \in Parts, ~Exists(ps[o]), NEW x, NEW qs,
         qs[o].batch = Len(a.batches) + 1, \A q \in Parts \ {o} : qs[q] = ps[q],
         DOMAIN x.batches = 1 .. Len(a.batches) + 1,
         \A b \in 1 .. Len(a.batches) : x.batches[b] = a.batches[b],
         x.batches[Len(a.batches) + 1] = IF Complete(qs[o]) THEN "sealed" ELSE "open",
         x.armed = a.armed, x.dropped = a.dropped, x.cleanups = a.cleanups
  PROVE  BatchesIn(x, qs)
<1> DEFINE L == Len(a.batches)
           new == L + 1
<1>1. /\ L \in Nat /\ DOMAIN a.batches = 1 .. L /\ DOMAIN x.batches = 1 .. new
      /\ new # 0 /\ new \notin 1 .. L /\ 0 \notin 1 .. new
      /\ \A b \in 1 .. new : b = new \/ b \in 1 .. L
      /\ \A b \in 1 .. L : b \in 1 .. new
  BY BatchTypes
<1>2. new \in 1 .. new
  BY <1>1
<1> HIDE DEF L, new
<1>3. x.dropped = {} /\ x.armed \subseteq DOMAIN x.batches /\ \A b \in x.armed : x.batches[b] = "sealed"
  BY <1>1 DEF BatchesIn, L
<1>4. ASSUME NEW p \in Parts, Exists(qs[p])
      PROVE  /\ qs[p].batch \in DOMAIN x.batches \ x.armed
             /\ x.batches[qs[p].batch] = IF Complete(qs[p]) THEN "sealed" ELSE "open"
             /\ \A q \in Parts \ {p} : qs[q].batch # qs[p].batch
             /\ \A c \in x.cleanups : c.batch # qs[p].batch
  <2>1. \A q \in Parts \ {o} : qs[q].batch # new
    BY <1>1 DEF BatchesIn, Exists
  <2>2. \A c \in a.cleanups : c.batch # new
    BY <1>1 DEF BatchesIn
  <2>3. CASE p = o
    BY <1>1, <1>2, <2>1, <2>2, <2>3 DEF BatchesIn, L, new
  <2>4. CASE p # o
    <3>1. qs[p] = ps[p] /\ Exists(ps[p])
      BY <1>4, <2>4
    <3>2. qs[p].batch \in 1 .. L
      BY <3>1, <1>1 DEF BatchesIn
    <3>3. qs[o].batch # qs[p].batch
      BY <3>2, <1>1 DEF new, L
    <3> QED
      BY <1>1, <3>1, <3>2, <3>3 DEF BatchesIn, L
  <2> QED
    BY <2>3, <2>4
<1>5. ASSUME NEW c \in x.cleanups
      PROVE  /\ c.batch \in DOMAIN x.batches \ x.armed /\ x.batches[c.batch] = "open"
             /\ \A d \in x.cleanups : d.batch = c.batch => d = c
  BY <1>1 DEF BatchesIn, L
<1>6. ASSUME NEW b \in DOMAIN x.batches
      PROVE  /\ x.batches[b] = "open" => \/ \E p \in Parts : qs[p].batch = b
                                         \/ \E c \in x.cleanups : c.batch = b
             /\ x.batches[b] = "sealed" => b \in x.armed \/ \E p \in Parts : qs[p].batch = b
  <2>1. CASE b = new
    BY <2>1 DEF new, L
  <2>2. CASE b \in 1 .. L
    <3>1. ASSUME NEW p \in Parts, ps[p].batch = b PROVE qs[p].batch = b
      BY <1>1, <2>2, <3>1 DEF Exists
    <3> QED
      BY <1>1, <2>2, <3>1 DEF BatchesIn, L
  <2> QED
    BY <1>1, <2>1, <2>2
<1> QED
  BY <1>3, <1>4, <1>5, <1>6 DEF BatchesIn

(* It has got further. *)
LEMMA BatchGoesOn ==
  ASSUME NEW a \in Assets, NEW ps, BatchesIn(a, ps), NEW o \in Parts, Exists(ps[o]), NEW x, NEW qs,
         qs[o].batch = ps[o].batch, Complete(ps[o]) => Complete(qs[o]),
         \A q \in Parts \ {o} : qs[q] = ps[q],
         DOMAIN x.batches = DOMAIN a.batches,
         \A b \in DOMAIN a.batches \ {ps[o].batch} : x.batches[b] = a.batches[b],
         x.batches[ps[o].batch] = IF Complete(qs[o]) THEN "sealed" ELSE "open",
         x.armed = a.armed, x.dropped = a.dropped, x.cleanups = a.cleanups
  PROVE  BatchesIn(x, qs)
<1>3. x.dropped = {} /\ x.armed \subseteq DOMAIN x.batches /\ \A b \in x.armed : x.batches[b] = "sealed"
  BY DEF BatchesIn
<1>4. ASSUME NEW p \in Parts, Exists(qs[p])
      PROVE  /\ qs[p].batch \in DOMAIN x.batches \ x.armed
             /\ x.batches[qs[p].batch] = IF Complete(qs[p]) THEN "sealed" ELSE "open"
             /\ \A q \in Parts \ {p} : qs[q].batch # qs[p].batch
             /\ \A c \in x.cleanups : c.batch # qs[p].batch
  BY <1>4 DEF BatchesIn, Exists
<1>5. ASSUME NEW c \in x.cleanups
      PROVE  /\ c.batch \in DOMAIN x.batches \ x.armed /\ x.batches[c.batch] = "open"
             /\ \A d \in x.cleanups : d.batch = c.batch => d = c
  BY DEF BatchesIn
<1>6. ASSUME NEW b \in DOMAIN x.batches
      PROVE  /\ x.batches[b] = "open" => \/ \E p \in Parts : qs[p].batch = b
                                         \/ \E c \in x.cleanups : c.batch = b
             /\ x.batches[b] = "sealed" => b \in x.armed \/ \E p \in Parts : qs[p].batch = b
  <2>1. CASE b = ps[o].batch
    BY <2>1
  <2>2. CASE b # ps[o].batch
    BY <2>2 DEF BatchesIn
  <2> QED
    BY <2>1, <2>2
<1> QED
  BY <1>3, <1>4, <1>5, <1>6 DEF BatchesIn

(* A complete preload is finished: its batch is armed. *)
LEMMA BatchIsArmed ==
  ASSUME NEW a \in Assets, NEW ps, BatchesIn(a, ps), NEW o \in Parts, Exists(ps[o]), Complete(ps[o]), NEW x, NEW qs,
         qs[o].batch = 0, \A q \in Parts \ {o} : qs[q] = ps[q],
         x.batches = a.batches, x.armed = a.armed \cup {ps[o].batch},
         x.dropped = a.dropped, x.cleanups = a.cleanups
  PROVE  BatchesIn(x, qs)
<1>1. ps[o].batch \in DOMAIN a.batches /\ a.batches[ps[o].batch] = "sealed" /\ ~Exists(qs[o])
  BY DEF BatchesIn, Exists
<1>2. \A b \in DOMAIN a.batches : b # 0
  BY BatchTypes
<1>3. x.dropped = {} /\ x.armed \subseteq DOMAIN x.batches /\ \A b \in x.armed : x.batches[b] = "sealed"
  BY <1>1 DEF BatchesIn
<1>4. ASSUME NEW p \in Parts, Exists(qs[p])
      PROVE  /\ qs[p].batch \in DOMAIN x.batches \ x.armed
             /\ x.batches[qs[p].batch] = IF Complete(qs[p]) THEN "sealed" ELSE "open"
             /\ \A q \in Parts \ {p} : qs[q].batch # qs[p].batch
             /\ \A c \in x.cleanups : c.batch # qs[p].batch
  <2>1. p # o /\ qs[p] = ps[p] /\ Exists(ps[p])
    BY <1>1, <1>4
  <2> QED
    BY <1>2, <2>1 DEF BatchesIn
<1>5. ASSUME NEW c \in x.cleanups
      PROVE  /\ c.batch \in DOMAIN x.batches \ x.armed /\ x.batches[c.batch] = "open"
             /\ \A d \in x.cleanups : d.batch = c.batch => d = c
  BY DEF BatchesIn
<1>6. ASSUME NEW b \in DOMAIN x.batches
      PROVE  /\ x.batches[b] = "open" => \/ \E p \in Parts : qs[p].batch = b
                                         \/ \E c \in x.cleanups : c.batch = b
             /\ x.batches[b] = "sealed" => b \in x.armed \/ \E p \in Parts : qs[p].batch = b
  <2>1. CASE b = ps[o].batch
    BY <1>1, <2>1
  <2>2. CASE b # ps[o].batch
    BY <2>2 DEF BatchesIn
  <2> QED
    BY <2>1, <2>2
<1> QED
  BY <1>3, <1>4, <1>5, <1>6 DEF BatchesIn

(* A preload is given up. *)
LEMMA BatchIsGivenUp ==
  ASSUME NEW a \in Assets, NEW ps, BatchesIn(a, ps), NEW o \in Parts, NEW keys, PreloadOK(a, ps[o], keys), NEW qs,
         qs[o].batch = 0, \A q \in Parts \ {o} : qs[q] = ps[q]
  PROVE  BatchesIn(Cancel(a, ps[o]), qs)
<1> DEFINE x == Cancel(a, ps[o])
<1>0. ~Exists(qs[o])
  BY DEF Exists
<1>1. CASE ~Exists(ps[o])
  <2>1. x = a /\ ps[o] = NoPreload
    BY <1>1 DEF Cancel, PreloadOK
  <2>2. \A b \in DOMAIN a.batches : b # 0
    BY BatchTypes
  <2> QED
    BY <1>0, <1>1, <2>1, <2>2 DEF BatchesIn, Exists
<1>2. CASE Exists(ps[o]) /\ Complete(ps[o])
  <2> DEFINE b0 == ps[o].batch
  <2>1. x = [a EXCEPT !.batches = [a.batches EXCEPT ![b0] = "active"]]
    BY <1>2 DEF Cancel, Activate
  <2>2. /\ DOMAIN x.batches = DOMAIN a.batches /\ x.armed = a.armed /\ x.dropped = a.dropped
        /\ x.cleanups = a.cleanups /\ \A b \in DOMAIN a.batches \ {b0} : x.batches[b] = a.batches[b]
    BY <2>1, BatchTypes DEF Assets
  <2>3. b0 \in DOMAIN a.batches
    BY <1>2 DEF BatchesIn
  <2>4. x.batches[b0] = "active"
    BY <2>1, <2>3, BatchTypes DEF Assets
  <2> HIDE DEF x
  <2>5. x.dropped = {} /\ x.armed \subseteq DOMAIN x.batches /\ \A b \in x.armed : x.batches[b] = "sealed"
    BY <1>2, <2>2 DEF BatchesIn
  <2>6. ASSUME NEW p \in Parts, Exists(qs[p])
        PROVE  /\ qs[p].batch \in DOMAIN x.batches \ x.armed
               /\ x.batches[qs[p].batch] = IF Complete(qs[p]) THEN "sealed" ELSE "open"
               /\ \A q \in Parts \ {p} : qs[q].batch # qs[p].batch
               /\ \A c \in x.cleanups : c.batch # qs[p].batch
    <3>1. p # o /\ qs[p] = ps[p] /\ Exists(ps[p]) /\ ps[p].batch # b0 /\ ps[p].batch # 0
      BY <1>0, <1>2, <2>6 DEF BatchesIn, Exists
    <3> QED
      BY <2>2, <3>1 DEF BatchesIn
  <2>7. ASSUME NEW c \in x.cleanups
        PROVE  /\ c.batch \in DOMAIN x.batches \ x.armed /\ x.batches[c.batch] = "open"
               /\ \A d \in x.cleanups : d.batch = c.batch => d = c
    BY <1>2, <2>2 DEF BatchesIn
  <2>8. ASSUME NEW b \in DOMAIN x.batches
        PROVE  /\ x.batches[b] = "open" => \/ \E p \in Parts : qs[p].batch = b
                                           \/ \E c \in x.cleanups : c.batch = b
               /\ x.batches[b] = "sealed" => b \in x.armed \/ \E p \in Parts : qs[p].batch = b
    <3>1. CASE b = b0
      BY <2>4, <3>1
    <3>2. CASE b # b0
      BY <2>2, <3>2 DEF BatchesIn
    <3> QED
      BY <3>1, <3>2
  <2> QED
    BY <2>5, <2>6, <2>7, <2>8 DEF BatchesIn, x
<1>3. CASE Exists(ps[o]) /\ ~Complete(ps[o])
  <2> DEFINE c0 == [pending |-> ToSet(ps[o].pending), batch |-> ps[o].batch]
  <2>1. x = [a EXCEPT !.cleanups = a.cleanups \cup {c0}]
    BY <1>3 DEF Cancel
  <2>2. /\ x.batches = a.batches /\ x.armed = a.armed /\ x.dropped = a.dropped
        /\ x.cleanups = a.cleanups \cup {c0} /\ c0.batch = ps[o].batch
    BY <2>1 DEF Assets
  <2>3. c0.batch \in DOMAIN a.batches \ a.armed /\ a.batches[c0.batch] = "open" /\ \A c \in a.cleanups : c.batch # c0.batch
    BY <1>3, <2>2 DEF BatchesIn
  <2> HIDE DEF x, c0
  <2>5. x.dropped = {} /\ x.armed \subseteq DOMAIN x.batches /\ \A b \in x.armed : x.batches[b] = "sealed"
    BY <2>2 DEF BatchesIn
  <2>6. ASSUME NEW p \in Parts, Exists(qs[p])
        PROVE  /\ qs[p].batch \in DOMAIN x.batches \ x.armed
               /\ x.batches[qs[p].batch] = IF Complete(qs[p]) THEN "sealed" ELSE "open"
               /\ \A q \in Parts \ {p} : qs[q].batch # qs[p].batch
               /\ \A c \in x.cleanups : c.batch # qs[p].batch
    <3>1. p # o /\ qs[p] = ps[p] /\ Exists(ps[p]) /\ ps[p].batch # ps[o].batch /\ ps[p].batch # 0
      BY <1>0, <1>3, <2>6 DEF BatchesIn, Exists
    <3> QED
      BY <2>2, <3>1 DEF BatchesIn
  <2>7. ASSUME NEW c \in x.cleanups
        PROVE  /\ c.batch \in DOMAIN x.batches \ x.armed /\ x.batches[c.batch] = "open"
               /\ \A d \in x.cleanups : d.batch = c.batch => d = c
    BY <2>2, <2>3 DEF BatchesIn
  <2>8. ASSUME NEW b \in DOMAIN x.batches
        PROVE  /\ x.batches[b] = "open" => \/ \E p \in Parts : qs[p].batch = b
                                           \/ \E c \in x.cleanups : c.batch = b
               /\ x.batches[b] = "sealed" => b \in x.armed \/ \E p \in Parts : qs[p].batch = b
    <3>1. CASE b = ps[o].batch
      BY <2>2, <2>3, <3>1
    <3>2. CASE b # ps[o].batch
      BY <2>2, <3>2 DEF BatchesIn
    <3> QED
      BY <3>1, <3>2
  <2> QED
    BY <2>5, <2>6, <2>7, <2>8 DEF BatchesIn, x
<1> QED
  BY <1>1, <1>2, <1>3

(* What only touches batches, and what touches none.                       *)
SameImages(a, x) == x.entry = a.entry /\ x.images = a.images /\ x.texture = a.texture /\ x.refused = a.refused
SameBatches(a, x) == x.batches = a.batches /\ x.armed = a.armed /\ x.dropped = a.dropped

(* The images and who owes them stay.                                      *)
LEMMA SameImagesFacts ==
  ASSUME NEW a, ImagesOK(a), NEW x \in Assets, SameImages(a, x)
  PROVE  /\ ImagesOK(x) /\ Later(a, x) /\ Handles(x) = Handles(a)
         /\ \A up, bp, o : KeepIn(a, up, bp, o) => KeepIn(x, up, bp, o)
         /\ \A H : Tidy(a, H) => Tidy(x, H)
<1>1. Handles(x) = Handles(a) /\ \A n : KeyOf(x, n) = KeyOf(a, n)
  BY DEF SameImages, Handles, KeyOf
<1>2. \A k : Cached(x, k) <=> Cached(a, k)
  BY DEF SameImages, Cached
<1>3. \A n : Settled(x, n) <=> Settled(a, n)
  BY <1>1 DEF SameImages, Settled, KeptIn
<1>4. ImagesOK(x)
  BY <1>1, <1>2 DEF ImagesOK, HandlesFor, SameImages
<1>5. Later(a, x)
  BY <1>1 DEF Later, SameImages
<1>6. ASSUME NEW up, NEW bp, NEW o, KeepIn(a, up, bp, o) PROVE KeepIn(x, up, bp, o)
  BY <1>1, <1>2, <1>3, <1>6 DEF KeepIn, SameImages
<1>7. \A H : Tidy(a, H) => Tidy(x, H)
  BY <1>1, <1>2, <1>3 DEF Tidy
<1> QED
  BY <1>1, <1>4, <1>5, <1>6, <1>7

(* The keys with a texture.                                                *)
CachedKeys(a) == {k \in Keys : Cached(a, k)}
-----------------------------------------------------------------------------
(* RequestTextures. *)
TexturesAsked(a, keys, x, hs) ==
  /\ ImagesOK(x) /\ Later(a, x) /\ hs \in Seq(Nat) /\ AwaitedOf(x, hs, keys)
  /\ x.texture = a.texture
  /\ \A n \in Handles(x) \ Handles(a) : n \in ToSet(hs)
  /\ \A n \in ToSet(hs) : x.entry[KeyOf(x, n)] = n /\ ~Cached(x, KeyOf(x, n))
  /\ \A k \in Keys : a.entry[k] # 0 => x.entry[k] # 0

(* The images of some keys are asked for, but not those with a texture.    *)
LEMMA UncachedFacts ==
  ASSUME NEW a, ImagesOK(a), NEW keys, IsPlan(keys)
  PROVE  LET c == RequestUncached(a, keys)
         IN  /\ TexturesAsked(a, keys, c.a, c.handles) /\ Asks(a, c.a)
             /\ c.a.pending = a.pending /\ c.a.cleanups = a.cleanups /\ SameBatches(a, c.a)
<1> DEFINE known == CachedKeys(a)
           c == RequestUncached(a, keys)
<1>1. c = AskFor(a, keys, known)
  BY DEF RequestUncached, CachedKeys
<1>2. /\ AskedFor(a, keys, known, c)
      /\ \A k \in ToSet(keys) : k \notin known => \E n \in ToSet(c.handles) : KeyOf(c.a, n) = k
  BY <1>1, AskForFacts DEF IsPlan
<1> HIDE DEF c
<1>3. ImagesOK(c.a) /\ Asks(a, c.a) /\ Later(a, c.a) /\ c.handles \in Seq(Nat)
  BY <1>2, AskedIsLater DEF AskedFor
<1>4. \A k : Cached(c.a, k) <=> Cached(a, k)
  BY <1>3 DEF Asks, Cached
<1>5. \A k \in ToSet(keys) : k \in Keys
  BY PlanFacts
<1>6. AwaitedOf(c.a, c.handles, keys)
  BY <1>2, <1>4, <1>5 DEF AwaitedOf, Covered, AskedFor, CachedKeys
<1>7. \A n \in ToSet(c.handles) : c.a.entry[KeyOf(c.a, n)] = n /\ ~Cached(c.a, KeyOf(c.a, n))
  BY <1>2, <1>4, <1>5 DEF AskedFor, HandlesFor, CachedKeys
<1>8. \A k \in Keys : a.entry[k] # 0 => c.a.entry[k] # 0
  BY <1>3 DEF Asks
<1>9. \A n \in Handles(c.a) \ Handles(a) : n \in ToSet(c.handles)
  BY <1>2 DEF AskedFor
<1>10. TexturesAsked(a, keys, c.a, c.handles)
  BY <1>3, <1>6, <1>7, <1>8, <1>9 DEF TexturesAsked, Asks
<1> QED
  BY <1>3, <1>10 DEF Asks, SameBatches, c

(* request_textures owes them itself.                                      *)
LEMMA TexturesFacts ==
  ASSUME NEW a, ImagesOK(a), NEW keys, IsPlan(keys)
  PROVE  LET x == RequestTextures(a, keys)
             hs == RequestUncached(a, keys).handles
         IN  /\ TexturesAsked(a, keys, x, hs)
             /\ ToSet(x.pending) = ToSet(a.pending) \cup ToSet(hs)
             /\ x.cleanups = a.cleanups /\ SameBatches(a, x)
             /\ \A up, bp, o : /\ KeepIn(a, up, bp, o) /\ up \subseteq Handles(a) /\ bp \subseteq Handles(a)
                               => KeepIn(x, up \cup ToSet(hs), bp, o)
<1> DEFINE c == RequestUncached(a, keys)
           x == RequestTextures(a, keys)
           hs == c.handles
<1>1. /\ TexturesAsked(a, keys, c.a, hs) /\ Asks(a, c.a)
      /\ c.a.pending = a.pending /\ c.a.cleanups = a.cleanups /\ SameBatches(a, c.a)
  BY UncachedFacts
<1>2. x = [c.a EXCEPT !.pending = a.pending \o hs]
  BY <1>1 DEF RequestTextures
<1> HIDE DEF c, x
<1>3. /\ a.pending \o hs \in Seq(Nat) /\ ToSet(a.pending \o hs) = ToSet(a.pending) \cup ToSet(hs)
  BY <1>1, MembersOfBoth DEF ImagesOK, Assets, TexturesAsked
<1>4. c.a \in Assets /\ ImagesOK(c.a)
  BY <1>1 DEF TexturesAsked, ImagesOK
<1>5. /\ x \in Assets /\ SameImages(c.a, x) /\ x.pending = a.pending \o hs
      /\ x.cleanups = a.cleanups /\ SameBatches(a, x)
  BY <1>1, <1>2, <1>3, <1>4 DEF Assets, SameImages, SameBatches
<1>6. /\ ImagesOK(x) /\ Later(c.a, x) /\ Handles(x) = Handles(c.a)
      /\ \A up, bp, o : KeepIn(c.a, up, bp, o) => KeepIn(x, up, bp, o)
  BY <1>4, <1>5, SameImagesFacts
<1>7. Later(a, x)
  BY <1>1, <1>6, LaterTrans DEF TexturesAsked
<1>8. AwaitedOf(x, hs, keys)
  <2>1. AwaitedOf(c.a, hs, keys)
    BY <1>1 DEF TexturesAsked
  <2> QED
    BY <2>1, <1>4, <1>6, AwaitedStays
<1>9. TexturesAsked(a, keys, x, hs)
  BY <1>1, <1>5, <1>6, <1>7, <1>8 DEF TexturesAsked, SameImages, Cached, KeyOf
<1>10. ASSUME NEW up, NEW bp, NEW o, KeepIn(a, up, bp, o), up \subseteq Handles(a), bp \subseteq Handles(a)
       PROVE  KeepIn(x, up \cup ToSet(hs), bp, o)
  <2> DEFINE up2 == up \cup ToSet(hs)
  <2>1. /\ \A n \in Handles(c.a) \ Handles(a) : n \in up2 \cup bp \cup o \/ Settled(c.a, n)
        /\ \A n \in up2 \ up : c.a.entry[KeyOf(c.a, n)] = n /\ ~Cached(c.a, KeyOf(c.a, n))
        /\ up \subseteq up2
    BY <1>1 DEF TexturesAsked
  <2> HIDE DEF up2
  <2>2. KeepIn(c.a, up2, bp, o)
    BY <1>1, <1>4, <1>10, <2>1, KeepAsked
  <2> QED
    BY <1>6, <2>2 DEF up2
<1> QED
  BY <1>3, <1>5, <1>9, <1>10 DEF x, c

(* RequestBatch. *)
LEMMA BatchFacts ==
  ASSUME NEW a, ImagesOK(a), NEW keys, IsPlan(keys)
  PROVE  LET c == RequestBatch(a, keys)
         IN  /\ ImagesOK(c.a) /\ Asks(a, c.a) /\ Later(a, c.a) /\ c.handles \in Seq(Nat)
             /\ AwaitedOf(c.a, c.handles, keys)
             /\ \A n \in ToSet(c.handles) : c.a.entry[KeyOf(c.a, n)] = n
             /\ \A n \in Handles(c.a) \ Handles(a) : n \in ToSet(c.handles)
<1> DEFINE c == RequestBatch(a, keys)
<1>1. c = AskFor(a, keys, {})
  BY DEF RequestBatch
<1>2. /\ AskedFor(a, keys, {}, c)
      /\ \A k \in ToSet(keys) : k \notin {} => \E n \in ToSet(c.handles) : KeyOf(c.a, n) = k
  BY <1>1, AskForFacts DEF IsPlan
<1> HIDE DEF c
<1>3. ImagesOK(c.a) /\ Asks(a, c.a) /\ Later(a, c.a) /\ c.handles \in Seq(Nat)
  BY <1>2, AskedIsLater DEF AskedFor
<1>4. AwaitedOf(c.a, c.handles, keys)
  BY <1>2 DEF AwaitedOf, Covered, AskedFor
<1> QED
  BY <1>2, <1>3, <1>4 DEF AskedFor, c

(* A batch is sealed when nothing is pending.                              *)
Sealed(a, b, full, x) ==
  /\ DOMAIN x.batches = DOMAIN a.batches
  /\ \A d \in DOMAIN a.batches \ {b} : x.batches[d] = a.batches[d]
  /\ x.batches[b] = IF full THEN "sealed" ELSE "open"
  /\ x.armed = a.armed /\ x.dropped = a.dropped

(* That is what SealIfComplete does.                                       *)
LEMMA SealFacts ==
  ASSUME NEW a \in Assets, NEW q, q.batch \in DOMAIN a.batches,
         a.batches[q.batch] = "open" \/ (a.batches[q.batch] = "sealed" /\ Complete(q))
  PROVE  LET x == SealIfComplete(a, q)
         IN  /\ x \in Assets /\ SameImages(a, x) /\ Sealed(a, q.batch, Complete(q), x)
             /\ x.pending = a.pending /\ x.cleanups = a.cleanups
<1> DEFINE x == SealIfComplete(a, q)
           b == q.batch
           bs == [a.batches EXCEPT ![b] = "sealed"]
<1>1. CASE Complete(q)
  <2>1. bs \in Seq(BatchStates) /\ DOMAIN bs = DOMAIN a.batches /\ bs[b] = "sealed"
        /\ \A d \in DOMAIN a.batches \ {b} : bs[d] = a.batches[d]
    BY BatchTypes DEF BatchStates
  <2>2. x = [a EXCEPT !.batches = bs]
    BY <1>1 DEF SealIfComplete, Seal
  <2> HIDE DEF bs, x, b
  <2>3. x \in Assets /\ SameImages(a, x) /\ x.batches = bs /\ x.armed = a.armed /\ x.dropped = a.dropped
        /\ x.pending = a.pending /\ x.cleanups = a.cleanups
    BY <2>1, <2>2 DEF Assets, BatchStates, SameImages
  <2> QED
    BY <1>1, <2>1, <2>3 DEF Sealed, x, b
<1>2. CASE ~Complete(q)
  BY <1>2 DEF SealIfComplete, SameImages, Sealed
<1> QED
  BY <1>1, <1>2
-----------------------------------------------------------------------------
(* A preload that has begun.                                               *)
PreloadBegun(a, keys, x, p) ==
  /\ TexturesAsked(a, keys, x, p.pending) /\ PreloadOK(x, p, keys) /\ Exists(p)
  /\ x.pending = a.pending /\ x.cleanups = a.cleanups /\ x.armed = a.armed /\ x.dropped = a.dropped
  /\ p.batch = Len(a.batches) + 1
  /\ DOMAIN x.batches = 1 .. Len(a.batches) + 1
  /\ \A b \in 1 .. Len(a.batches) : x.batches[b] = a.batches[b]
  /\ x.batches[Len(a.batches) + 1] = IF Complete(p) THEN "sealed" ELSE "open"

(* A new batch is open.                                                    *)
LEMMA CreateFacts ==
  ASSUME NEW a, ImagesOK(a)
  PROVE  LET x == CreateBatch(a)
         IN  /\ x \in Assets /\ ImagesOK(x) /\ SameImages(a, x) /\ x.pending = a.pending /\ x.cleanups = a.cleanups
             /\ x.armed = a.armed /\ x.dropped = a.dropped
             /\ DOMAIN x.batches = 1 .. Len(a.batches) + 1
             /\ \A b \in 1 .. Len(a.batches) : x.batches[b] = a.batches[b]
             /\ x.batches[Len(a.batches) + 1] = "open"
<1> DEFINE x == CreateBatch(a)
           bs == Append(a.batches, "open")
<1>0. a \in Assets
  BY DEF ImagesOK
<1>1. /\ bs \in Seq(BatchStates) /\ DOMAIN bs = 1 .. Len(a.batches) + 1
      /\ \A b \in 1 .. Len(a.batches) : bs[b] = a.batches[b]
      /\ bs[Len(a.batches) + 1] = "open"
  BY <1>0, BatchTypes DEF BatchStates
<1>2. x = [a EXCEPT !.batches = bs]
  BY DEF CreateBatch
<1> HIDE DEF bs, x
<1>3. x \in Assets /\ SameImages(a, x) /\ x.batches = bs /\ x.armed = a.armed /\ x.dropped = a.dropped
      /\ x.pending = a.pending /\ x.cleanups = a.cleanups
  BY <1>0, <1>1, <1>2 DEF Assets, BatchStates, SameImages
<1> QED
  BY <1>1, <1>3, SameImagesFacts DEF x

(* Its constructor: who begins it owes what it asks for.                   *)
LEMMA BeginFacts ==
  ASSUME NEW a, ImagesOK(a), NEW keys, IsPlan(keys)
  PROVE  /\ PreloadBegun(a, keys, BeginPreload(a, keys), BegunPreload(a, keys))
         /\ \A up, bp, o : /\ KeepIn(a, up, bp, o) /\ up \subseteq Handles(a) /\ bp \subseteq Handles(a)
              => /\ KeepIn(BeginPreload(a, keys), up \cup ToSet(BegunPreload(a, keys).pending), bp, o)
                 /\ bp = {} => KeepIn(BeginPreload(a, keys), up, ToSet(BegunPreload(a, keys).pending), o)
<1> DEFINE z == CreateBatch(a)
           c == RequestUncached(z, keys)
           p == BegunPreload(a, keys)
           x == BeginPreload(a, keys)
           new == Len(a.batches) + 1
<1>1. /\ z \in Assets /\ ImagesOK(z) /\ SameImages(a, z) /\ z.pending = a.pending /\ z.cleanups = a.cleanups
      /\ z.armed = a.armed /\ z.dropped = a.dropped
      /\ DOMAIN z.batches = 1 .. new
      /\ \A b \in 1 .. Len(a.batches) : z.batches[b] = a.batches[b]
      /\ z.batches[new] = "open"
  BY CreateFacts
<1>2. /\ Later(a, z) /\ Handles(z) = Handles(a)
      /\ \A up, bp, o : KeepIn(a, up, bp, o) => KeepIn(z, up, bp, o)
  BY <1>1, SameImagesFacts
<1>3. x = SealIfComplete(c.a, p) /\ p = [batch |-> new, pending |-> c.handles, failed |-> FALSE]
  BY DEF BeginPreload, BegunPreload
<1>4. Len(a.batches) \in Nat /\ new \in 1 .. new /\ new # 0 /\ new \notin 1 .. Len(a.batches) /\ new \in Nat
      /\ \A b \in 1 .. Len(a.batches) : b \in 1 .. new
  BY BatchTypes DEF ImagesOK
<1> HIDE DEF z, new
<1>5. /\ TexturesAsked(z, keys, c.a, c.handles) /\ Asks(z, c.a)
      /\ c.a.pending = z.pending /\ c.a.cleanups = z.cleanups /\ SameBatches(z, c.a)
  BY <1>1, UncachedFacts
<1> HIDE DEF c, x, p
<1>6. p.batch = new /\ p.pending = c.handles /\ p.failed = FALSE /\ Exists(p)
  BY <1>3, <1>4 DEF Exists
<1>7. c.a \in Assets /\ ImagesOK(c.a) /\ p.batch \in DOMAIN c.a.batches /\ c.a.batches[p.batch] = "open"
  BY <1>1, <1>4, <1>5, <1>6 DEF TexturesAsked, ImagesOK, SameBatches
<1>8. /\ x \in Assets /\ SameImages(c.a, x) /\ Sealed(c.a, p.batch, Complete(p), x)
      /\ x.pending = c.a.pending /\ x.cleanups = c.a.cleanups
  BY <1>3, <1>7, SealFacts
<1>9. /\ ImagesOK(x) /\ Later(c.a, x) /\ Handles(x) = Handles(c.a)
      /\ \A up, bp, o : KeepIn(c.a, up, bp, o) => KeepIn(x, up, bp, o)
  BY <1>7, <1>8, SameImagesFacts
<1>10. Later(a, x)
  BY <1>2, <1>5, <1>9, LaterTrans DEF TexturesAsked
<1>11. AwaitedOf(x, c.handles, keys)
  BY <1>5, <1>7, <1>9, AwaitedStays DEF TexturesAsked
<1>12. TexturesAsked(a, keys, x, p.pending)
  BY <1>1, <1>2, <1>5, <1>6, <1>8, <1>9, <1>10, <1>11 DEF TexturesAsked, SameImages, Cached, KeyOf
<1>13. PreloadOK(x, p, keys)
  <2>1. p \in [batch : Nat, pending : Seq(Nat), failed : BOOLEAN]
    BY <1>3, <1>4, <1>5 DEF TexturesAsked
  <2> QED
    BY <1>6, <1>11, <2>1 DEF PreloadOK, AwaitedOf
<1>14. /\ DOMAIN x.batches = 1 .. new /\ \A b \in 1 .. Len(a.batches) : x.batches[b] = a.batches[b]
       /\ x.batches[new] = IF Complete(p) THEN "sealed" ELSE "open"
       /\ x.armed = a.armed /\ x.dropped = a.dropped
  BY <1>1, <1>4, <1>5, <1>6, <1>8 DEF Sealed, SameBatches
<1>15. PreloadBegun(a, keys, x, p)
  BY <1>1, <1>5, <1>6, <1>8, <1>12, <1>13, <1>14 DEF PreloadBegun, new
<1> DEFINE P == ToSet(p.pending)
<1>16. /\ P \subseteq Handles(c.a) /\ \A n \in Handles(c.a) \ Handles(z) : n \in P
       /\ \A n \in P : c.a.entry[KeyOf(c.a, n)] = n /\ ~Cached(c.a, KeyOf(c.a, n))
  BY <1>5, <1>6 DEF TexturesAsked, AwaitedOf, HandlesFor
<1> HIDE DEF P
<1>17. ASSUME NEW up, NEW bp, NEW o, KeepIn(a, up, bp, o), up \subseteq Handles(a), bp \subseteq Handles(a)
       PROVE  KeepIn(x, up \cup P, bp, o)
  <2> DEFINE up2 == up \cup P
  <2>1. KeepIn(z, up, bp, o) /\ up \subseteq Handles(z) /\ bp \subseteq Handles(z)
    BY <1>2, <1>17
  <2>2. /\ up \subseteq up2
        /\ \A n \in Handles(c.a) \ Handles(z) : n \in up2 \cup bp \cup o \/ Settled(c.a, n)
        /\ \A n \in up2 \ up : c.a.entry[KeyOf(c.a, n)] = n /\ ~Cached(c.a, KeyOf(c.a, n))
    BY <1>16
  <2> HIDE DEF up2
  <2>3. KeepIn(c.a, up2, bp, o)
    BY <1>1, <1>5, <1>7, <2>1, <2>2, KeepAsked
  <2> QED
    BY <1>9, <2>3 DEF up2
<1>18. ASSUME NEW up, NEW o, KeepIn(a, up, {}, o), up \subseteq Handles(a)
       PROVE  KeepIn(x, up, P, o)
  <2>1. KeepIn(z, up, {}, o) /\ up \subseteq Handles(z)
    BY <1>2, <1>18
  <2>2. KeepIn(c.a, up, P, o)
    BY <1>1, <1>5, <1>7, <1>16, <2>1, KeepAsked
  <2> QED
    BY <1>9, <2>2
<1> QED
  BY <1>15, <1>17, <1>18 DEF x, p, P
-----------------------------------------------------------------------------
(* advance. *)
Advanced(a, p, keys, x, q) ==
  /\ ImagesOK(x) /\ Later(a, x) /\ Handles(x) = Handles(a) /\ PreloadOK(x, q, keys)
  /\ q.batch = p.batch /\ ToSet(q.pending) \subseteq ToSet(p.pending)
  /\ \A n \in ToSet(p.pending) \ ToSet(q.pending) : Settled(x, n)
  /\ Sealed(a, p.batch, Complete(q), x)
  /\ x.pending = a.pending /\ x.cleanups = a.cleanups

(* advance, of any preload.                                                *)
LEMMA AdvanceFacts ==
  ASSUME NEW a, ImagesOK(a), NEW keys, IsPlan(keys), NEW p, PreloadOK(a, p, keys), Exists(p),
         p.batch \in DOMAIN a.batches, a.batches[p.batch] = IF Complete(p) THEN "sealed" ELSE "open",
         NEW up, NEW bp, NEW o, KeepIn(a, up, bp, o), up \subseteq Handles(a), bp \subseteq Handles(a),
         Apart(a, up, bp), ToSet(p.pending) \subseteq up \cup bp, NEW budget \in Nat
  PROVE  LET done == Advance(a, p, budget)
         IN  /\ Advanced(a, p, keys, done.a, done.p)
             /\ KeepIn(done.a, up, bp, o)
<1> DEFINE hs == p.pending
           H == up \cup bp
           end == LookThrough(a, hs, budget, p.batch)
           q == Advance(a, p, budget).p
           x == Advance(a, p, budget).a
<1>1. p.batch \in Nat \ {0} /\ hs \in Seq(Nat) /\ p.failed \in BOOLEAN
      /\ p = [batch |-> p.batch, pending |-> p.pending, failed |-> p.failed]
      /\ ToSet(hs) \subseteq HandlesFor(a, ToSet(keys))
  BY DEF PreloadOK, Exists
<1>2. Tidy(a, H) /\ MayUpload(a, hs, H, p.batch)
  <2>1. Tidy(a, H) /\ \A n \in H : Mine(a, H, n)
    BY KeepTidy
  <2>2. hs = << >> \/ Takes(a, p.batch)
    BY <1>1 DEF Takes, Complete, ByKey, Automatic
  <2> QED
    BY <2>1, <2>2 DEF MayUpload
<1>3. LookedSoFar(a, hs, H, end) /\ \A n \in ToSet(hs) : Passed(a, end, n)
  BY <1>1, <1>2, LookThroughFacts
<1> HIDE DEF end, H
<1>4. /\ end.a \in Assets /\ end.rest \in Seq(Nat) /\ end.back \in Seq(Nat) /\ end.failed \in BOOLEAN
      /\ Uploaded(a, end.a) /\ Tidy(end.a, H) /\ Unseen(end) \subseteq ToSet(hs)
      /\ (end.failed => Bad(a, hs))
  BY <1>3 DEF LookedSoFar, Looks
<1> DEFINE left == end.rest \o end.back
           v == p.failed \/ end.failed
<1>5. left \in Seq(Nat) /\ ToSet(left) = Unseen(end)
  BY <1>4, MembersOfBoth DEF Unseen
<1>6. v \in BOOLEAN /\ (v <=> p.failed \/ end.failed)
  BY Zenon
<1>7. q = [p EXCEPT !.pending = left, !.failed = v] /\ x = SealIfComplete(end.a, q)
  BY DEF Advance, end
<1> HIDE DEF left, v, q, x, hs
<1>8. q.batch = p.batch /\ q.pending = left /\ q.failed = v /\ q = [batch |-> p.batch, pending |-> left, failed |-> v]
  BY <1>1, <1>7
<1>9. KeepIn(end.a, up, bp, o) /\ ImagesOK(end.a) /\ Later(a, end.a) /\ Handles(end.a) = Handles(a)
  <2>1. Tidy(end.a, up \cup bp)
    BY <1>4 DEF H
  <2>2. KeepIn(end.a, up, bp, o)
    BY <1>4, <2>1, KeepUploaded
  <2>3. ImagesOK(end.a) /\ Later(a, end.a)
    BY <1>4, UploadedImages, UploadedIsLater
  <2>4. Handles(end.a) = Handles(a)
    BY <1>4 DEF Uploaded, SameRest, Handles
  <2> QED
    BY <2>2, <2>3, <2>4
<1>10. /\ end.a.batches = a.batches /\ end.a.armed = a.armed /\ end.a.dropped = a.dropped
       /\ end.a.pending = a.pending /\ end.a.cleanups = a.cleanups
  BY <1>4 DEF Uploaded, SameRest
<1>11. Complete(p) => Complete(q)
  <2>1. ASSUME Complete(p) PROVE Complete(q)
    <3>1. hs = << >>
      BY <2>1 DEF Complete, hs
    <3>2. ToSet(left) = {}
      BY <1>4, <1>5, <3>1, MembersOfNone
    <3>3. left = << >>
      BY <1>5, <3>2, MembersOf
    <3> QED
      BY <1>8, <3>3 DEF Complete
  <2> QED
    BY <2>1
<1>12. q.batch \in DOMAIN end.a.batches
       /\ (end.a.batches[q.batch] = "open" \/ (end.a.batches[q.batch] = "sealed" /\ Complete(q)))
  BY <1>8, <1>10, <1>11
<1>13. /\ x \in Assets /\ SameImages(end.a, x) /\ Sealed(end.a, q.batch, Complete(q), x)
       /\ x.pending = a.pending /\ x.cleanups = a.cleanups
  BY <1>4, <1>7, <1>10, <1>12, SealFacts
<1>14. ImagesOK(x) /\ Later(end.a, x) /\ Handles(x) = Handles(a) /\ KeepIn(x, up, bp, o)
  BY <1>9, <1>13, SameImagesFacts
<1>15. Later(a, x)
  BY <1>9, <1>14, LaterTrans
<1>16. ToSet(q.pending) \subseteq ToSet(hs) /\ ToSet(q.pending) = Unseen(end)
  BY <1>4, <1>5, <1>8
<1>17. \A n \in Handles(a) : (Settled(end.a, n) => Settled(x, n)) /\ KeyOf(x, n) = KeyOf(a, n) /\ KeyOf(a, n) \in Keys
  BY <1>9, <1>14, <1>15, LaterFacts, ImageFacts DEF ImagesOK
<1>18. \A k \in Keys : Cached(end.a, k) => Cached(x, k)
  BY <1>9, <1>14, LaterFacts
<1>19. ToSet(hs) \subseteq Handles(a) /\ \A n \in ToSet(hs) : KeyOf(a, n) \in ToSet(keys)
  BY <1>1 DEF HandlesFor, hs
<1>20. \A n \in ToSet(hs) \ ToSet(q.pending) :
         Settled(x, n) /\ (end.failed \/ Cached(x, KeyOf(a, n)))
  BY <1>3, <1>16, <1>17, <1>18, <1>19 DEF Passed
<1>21. q.failed => Lacks(keys)
  <2>1. p.failed => Lacks(keys)
    BY DEF PreloadOK
  <2>2. end.failed => Lacks(keys)
    BY <1>4, <1>19 DEF Bad, Lacks
  <2> QED
    BY <1>6, <1>8, <2>1, <2>2
<1>22. q.failed \/ Covered(x, keys, ToSet(q.pending))
  <2>1. SUFFICES ASSUME ~q.failed, NEW k \in ToSet(keys)
                 PROVE  Cached(x, k) \/ \E n \in ToSet(q.pending) : KeyOf(x, n) = k
    BY DEF Covered
  <2>2. ~p.failed /\ ~end.failed
    BY <1>6, <1>8, <2>1
  <2>3. Cached(a, k) \/ \E n \in ToSet(hs) : KeyOf(a, n) = k
    BY <2>2 DEF PreloadOK, Covered, hs
  <2>4. k \in Keys
    BY PlanFacts
  <2>5. CASE Cached(a, k)
    BY <1>15, <2>4, <2>5, LaterFacts
  <2>6. ASSUME NEW n \in ToSet(hs), KeyOf(a, n) = k
        PROVE  Cached(x, k) \/ \E m \in ToSet(q.pending) : KeyOf(x, m) = k
    BY <1>17, <1>19, <1>20, <2>2, <2>6
  <2> QED
    BY <2>3, <2>5, <2>6
<1>23. PreloadOK(x, q, keys)
  <2>1. q \in [batch : Nat, pending : Seq(Nat), failed : BOOLEAN]
    BY <1>1, <1>5, <1>6, <1>8
  <2>2. ToSet(q.pending) \subseteq HandlesFor(x, ToSet(keys))
    BY <1>14, <1>16, <1>17, <1>19 DEF HandlesFor
  <2>3. Exists(q)
    BY <1>8 DEF Exists
  <2> QED
    BY <1>21, <1>22, <2>1, <2>2, <2>3 DEF PreloadOK
<1>24. Sealed(a, p.batch, Complete(q), x)
  BY <1>8, <1>10, <1>13 DEF Sealed
<1> QED
  BY <1>8, <1>13, <1>14, <1>15, <1>16, <1>20, <1>23, <1>24 DEF Advanced, x, q, hs

(* pump_uploads. *)
LEMMA PumpFacts ==
  ASSUME NEW a, ImagesOK(a), NEW up, NEW bp, NEW o, KeepIn(a, up \cup ToSet(a.pending), bp, o),
         up \subseteq Handles(a), ToSet(a.pending) \subseteq Handles(a), bp \subseteq Handles(a),
         Apart(a, up \cup ToSet(a.pending), bp), NEW budget \in Nat
  PROVE  LET x == PumpUploads(a, budget)
         IN  /\ ImagesOK(x) /\ Later(a, x) /\ Handles(x) = Handles(a) /\ ToSet(x.pending) \subseteq ToSet(a.pending)
             /\ x.cleanups = a.cleanups /\ SameBatches(a, x)
             /\ KeepIn(x, up \cup ToSet(x.pending), bp, o)
             /\ \A k \in Keys : Cached(x, k) => Cached(a, k) \/ \E n \in ToSet(a.pending) : KeyOf(a, n) = k
<1> DEFINE hs == a.pending
           ups == up \cup ToSet(hs)
           H == ups \cup bp
           end == LookThrough(a, hs, budget, ByKey)
           left == end.rest \o end.back
           x == PumpUploads(a, budget)
<1>1. hs \in Seq(Nat)
  BY DEF ImagesOK, Assets
<1>2. Tidy(a, H) /\ MayUpload(a, hs, H, ByKey)
  BY KeepTidy DEF MayUpload, Takes
<1>3. LookedSoFar(a, hs, H, end) /\ \A n \in ToSet(hs) : Passed(a, end, n)
  BY <1>1, <1>2, LookThroughFacts
<1>4. x = [end.a EXCEPT !.pending = left]
  BY DEF PumpUploads
<1> HIDE DEF end, H
<1>5. /\ end.a \in Assets /\ end.rest \in Seq(Nat) /\ end.back \in Seq(Nat)
      /\ Uploaded(a, end.a) /\ Tidy(end.a, H) /\ Unseen(end) \subseteq ToSet(hs)
  BY <1>3 DEF LookedSoFar, Looks
<1>6. left \in Seq(Nat) /\ ToSet(left) = Unseen(end)
  BY <1>5, MembersOfBoth DEF Unseen
<1> HIDE DEF left, x
<1>7. KeepIn(end.a, ups, bp, o)
  <2>1. Tidy(end.a, ups \cup bp) /\ ups \subseteq Handles(a)
    BY <1>5 DEF H
  <2> HIDE DEF ups
  <2> QED
    BY <1>5, <2>1, KeepUploaded DEF ups
<1>8. ImagesOK(end.a) /\ Later(a, end.a) /\ Handles(end.a) = Handles(a)
  <2>1. ImagesOK(end.a) /\ Later(a, end.a)
    BY <1>5, UploadedImages, UploadedIsLater
  <2>2. Handles(end.a) = Handles(a)
    BY <1>5 DEF Uploaded, SameRest, Handles
  <2> QED
    BY <2>1, <2>2
<1>9. /\ x \in Assets /\ SameImages(end.a, x) /\ x.pending = left /\ x.cleanups = a.cleanups /\ SameBatches(a, x)
  BY <1>4, <1>5, <1>6 DEF Assets, SameImages, Uploaded, SameRest, SameBatches
<1>10. ImagesOK(x) /\ Later(end.a, x) /\ Handles(x) = Handles(a) /\ KeepIn(x, ups, bp, o)
  BY <1>7, <1>8, <1>9, SameImagesFacts
<1>11. Later(a, x)
  BY <1>8, <1>10, LaterTrans
<1>12. ASSUME NEW n \in ToSet(hs), n \notin ToSet(left) PROVE Settled(x, n)
  <2>1. Settled(end.a, n)
    BY <1>3, <1>6, <1>12 DEF Passed
  <2> QED
    BY <1>8, <1>10, <2>1, LaterFacts
<1>13. KeepIn(x, up \cup ToSet(left), bp, o)
  <2>1. up \cup ToSet(left) \in SUBSET ups /\ bp \in SUBSET bp
    BY <1>5, <1>6
  <2>2. \A n \in ups \cup bp \cup o : n \in (up \cup ToSet(left)) \cup bp \cup o \/ Settled(x, n)
    BY <1>12
  <2> HIDE DEF ups
  <2> QED
    BY <1>10, <2>1, <2>2, KeepLess
<1>14. ASSUME NEW k \in Keys, Cached(x, k), ~Cached(a, k) PROVE \E n \in ToSet(hs) : KeyOf(a, n) = k
  <2>1. Cached(end.a, k)
    BY <1>9, <1>14 DEF SameImages, Cached
  <2> QED
    BY <1>3, <1>14, <2>1 DEF LookedSoFar, OnlyOf
<1> QED
  BY <1>5, <1>6, <1>9, <1>10, <1>11, <1>13, <1>14 DEF x

(* What cancelled preloads still wait for.                                 *)
LEMMA InCleanups ==
  ASSUME NEW a, NEW n PROVE n \in CleanupHandles(a) <=> \E c \in a.cleanups : n \in c.pending
BY DEF CleanupHandles

(* A preload that is cancelled leaves what it waits for to the cleanups.   *)
LEMMA CancelFacts ==
  ASSUME NEW a, ImagesOK(a), NEW keys, IsPlan(keys), NEW p, PreloadOK(a, p, keys),
         Exists(p) => p.batch \in DOMAIN a.batches
  PROVE  LET x == Cancel(a, p)
         IN  /\ x \in Assets /\ SameImages(a, x) /\ x.pending = a.pending
             /\ CleanupHandles(x) = CleanupHandles(a) \cup ToSet(p.pending)
<1> DEFINE x == Cancel(a, p)
<1>0. /\ a \in Assets /\ p.pending \in Seq(Nat) /\ p.batch \in Nat /\ ToSet(p.pending) \subseteq Nat
  BY MembersOf DEF ImagesOK, PreloadOK
<1>1. CASE ~Exists(p)
  <2>1. x = a /\ p.pending = << >>
    BY <1>1 DEF Cancel, PreloadOK, NoPreload
  <2> QED
    BY <1>0, <2>1, MembersOfNone DEF SameImages
<1>2. CASE Exists(p) /\ Complete(p)
  <2> DEFINE bs == [a.batches EXCEPT ![p.batch] = "active"]
  <2>1. bs \in Seq(BatchStates)
    BY <1>0, <1>2, BatchTypes DEF BatchStates
  <2>2. x = [a EXCEPT !.batches = bs]
    BY <1>2 DEF Cancel, Activate
  <2> HIDE DEF bs, x
  <2>3. x \in Assets /\ SameImages(a, x) /\ x.pending = a.pending /\ x.cleanups = a.cleanups
    BY <1>0, <2>1, <2>2 DEF Assets, BatchStates, SameImages
  <2>4. ToSet(p.pending) = {}
    BY <1>2, MembersOfNone DEF Complete
  <2> QED
    BY <2>3, <2>4 DEF CleanupHandles, x
<1>3. CASE Exists(p) /\ ~Complete(p)
  <2> DEFINE c0 == [pending |-> ToSet(p.pending), batch |-> p.batch]
             cs == a.cleanups \cup {c0}
  <2>1. c0 \in [pending : SUBSET Nat, batch : Nat \ {0}] /\ c0.pending = ToSet(p.pending)
    BY <1>0, <1>3 DEF Exists
  <2>2. x = [a EXCEPT !.cleanups = cs]
    BY <1>3 DEF Cancel
  <2> HIDE DEF c0, x
  <2>3. cs \in SUBSET [pending : SUBSET Nat, batch : Nat \ {0}]
    BY <1>0, <2>1 DEF Assets
  <2> HIDE DEF cs
  <2>5. x \in Assets /\ SameImages(a, x) /\ x.pending = a.pending /\ x.cleanups = cs
    BY <1>0, <2>2, <2>3 DEF Assets, SameImages
  <2>6. CleanupHandles(x) = CleanupHandles(a) \cup ToSet(p.pending)
    <3>1. \A c : c \in x.cleanups <=> c \in a.cleanups \/ c = c0
      BY <2>5 DEF cs
    <3>2. ASSUME NEW n PROVE n \in CleanupHandles(x) <=> n \in CleanupHandles(a) \/ n \in ToSet(p.pending)
      BY <2>1, <3>1, InCleanups
    <3> QED
      BY <3>2
  <2> QED
    BY <2>5, <2>6 DEF x
<1> QED
  BY <1>1, <1>2, <1>3
-----------------------------------------------------------------------------
(* Handles are given back. *)
GivenBack(a, R, x) ==
  /\ x.images = a.images /\ x.texture = a.texture /\ x.refused = a.refused
  /\ \A k \in Keys : x.entry[k] = IF a.entry[k] \in R /\ HasImage(a, a.entry[k]) THEN 0 ELSE a.entry[k]

(* What is given back is settled, and nothing else changes.                *)
LEMMA GivenBackFacts ==
  ASSUME NEW a, ImagesOK(a), NEW R, NEW x \in Assets, GivenBack(a, R, x)
  PROVE  /\ ImagesOK(x) /\ Later(a, x) /\ Handles(x) = Handles(a)
         /\ \A n \in R : n \in Handles(a) /\ IsReady(a, n) => Settled(x, n)
<1>1. /\ Handles(x) = Handles(a) /\ \A n : KeyOf(x, n) = KeyOf(a, n)
  BY DEF GivenBack, Handles, KeyOf
<1>2. /\ \A k \in Keys : x.entry[k] = a.entry[k] \/ x.entry[k] = 0
      /\ \A k : Cached(x, k) <=> Cached(a, k)
      /\ \A n \in Handles(a) : n # 0 /\ KeyOf(a, n) \in Keys /\ a.images[n].status \in {"Waiting", "Ready", "Failed"}
  BY ImageFacts DEF GivenBack, Cached, ImagesOK
<1>3. ImagesOK(x)
  BY <1>1, <1>2 DEF ImagesOK, HandlesFor, GivenBack
<1>4. Later(a, x)
  BY <1>1, <1>2 DEF Later, GivenBack
<1>5. ASSUME NEW n \in R, n \in Handles(a), IsReady(a, n), x.entry[KeyOf(x, n)] = n
      PROVE  x.images[n].status = "Failed"
  <2>1. KeyOf(x, n) = KeyOf(a, n) /\ KeyOf(a, n) \in Keys /\ n # 0
    BY <1>1, <1>2, <1>5
  <2>2. a.entry[KeyOf(a, n)] = n /\ ~HasImage(a, n)
    BY <1>5, <2>1 DEF GivenBack
  <2> QED
    BY <1>2, <1>5, <2>2 DEF GivenBack, IsReady, HasImage
<1> QED
  BY <1>1, <1>3, <1>4, <1>5 DEF Settled

(* That is what GiveBack does.                                             *)
LEMMA GiveBackFacts ==
  ASSUME NEW a, ImagesOK(a), NEW R
  PROVE  LET x == GiveBack(a, R)
         IN  /\ x \in Assets /\ GivenBack(a, R, x) /\ x.pending = a.pending /\ x.cleanups = a.cleanups
             /\ SameBatches(a, x)
<1> DEFINE e == [k \in Keys |-> IF a.entry[k] \in R /\ HasImage(a, a.entry[k]) THEN 0 ELSE a.entry[k]]
           x == GiveBack(a, R)
<1>1. a \in Assets /\ e \in [Keys -> Nat]
  BY ImageFacts DEF ImagesOK
<1>2. x = [a EXCEPT !.entry = e]
  BY DEF GiveBack
<1>3. \A k \in Keys : e[k] = IF a.entry[k] \in R /\ HasImage(a, a.entry[k]) THEN 0 ELSE a.entry[k]
  OBVIOUS
<1> HIDE DEF e, x
<1>4. /\ x \in Assets /\ x.entry = e /\ x.images = a.images /\ x.texture = a.texture /\ x.refused = a.refused
      /\ x.pending = a.pending /\ x.cleanups = a.cleanups
      /\ x.batches = a.batches /\ x.armed = a.armed /\ x.dropped = a.dropped
  BY <1>1, <1>2 DEF Assets
<1> QED
  BY <1>3, <1>4 DEF GivenBack, SameBatches, x

(* Nobody else loses an image.                                             *)
LEMMA KeepGivenBack ==
  ASSUME NEW a, ImagesOK(a), NEW up, NEW bp, NEW o, KeepIn(a, up, bp, o),
         up \subseteq Handles(a), bp \subseteq Handles(a),
         NEW R, R \subseteq Handles(a), Apart(a, up, R), NEW x \in Assets, GivenBack(a, R, x)
  PROVE  KeepIn(x, up, bp, o)
<1>1. Later(a, x) /\ Handles(x) = Handles(a)
  BY GivenBackFacts
<1>2. \A n \in Handles(a) : /\ KeyOf(x, n) = KeyOf(a, n) /\ KeyOf(a, n) \in Keys
                            /\ (Settled(a, n) => Settled(x, n))
  BY <1>1, LaterFacts, ImageFacts DEF ImagesOK
<1>3. \A k : Cached(x, k) <=> Cached(a, k)
  BY DEF GivenBack, Cached
<1>4. ASSUME NEW n \in up, Good(KeyOf(x, n)), ~Cached(x, KeyOf(x, n)) PROVE x.entry[KeyOf(x, n)] = n
  <2>1. n \in Handles(a) /\ KeyOf(x, n) = KeyOf(a, n) /\ KeyOf(a, n) \in Keys
    BY <1>2
  <2>2. a.entry[KeyOf(a, n)] = n
    BY <1>3, <1>4, <2>1 DEF KeepIn
  <2>3. n \notin R
    BY DEF Apart
  <2> QED
    BY <2>1, <2>2, <2>3 DEF GivenBack
<1> QED
  BY <1>1, <1>2, <1>3, <1>4 DEF KeepIn
-----------------------------------------------------------------------------
(* pump_cancelled_preload_cleanup. *)
LEMMA PumpCleanupsFacts ==
  ASSUME NEW a, ImagesOK(a), NEW ps, BatchesIn(a, ps), CleanupHandles(a) \subseteq Handles(a)
  PROVE  LET x == PumpCleanups(a)
         IN  /\ x \in Assets /\ \E R \in SUBSET CleanupHandles(a) :
                  /\ GivenBack(a, R, x) /\ CleanupHandles(x) = CleanupHandles(a) \ R
                  /\ \A n \in R : IsReady(a, n)
             /\ x.pending = a.pending /\ BatchesIn(x, ps)
             /\ a.cleanups = {} => x.cleanups = {}
<1> DEFINE x == PumpCleanups(a)
           unfinished == {c \in a.cleanups : ReadyOf(a, c) # c.pending}
           finished == {c.batch : c \in a.cleanups \ unfinished}
           R == UNION {ReadyOf(a, c) : c \in a.cleanups}
           y == GiveBack(a, R)
           Later2(c) == [c EXCEPT !.pending = c.pending \ ReadyOf(a, c)]
           cs == {Later2(c) : c \in unfinished}
           bs == [b \in DOMAIN a.batches |-> IF b \in finished THEN "active" ELSE a.batches[b]]
           dr == a.dropped \cup UNION {{n \in ReadyOf(a, c) : HasImage(a, n)} :
                                         c \in {z \in a.cleanups : a.batches[z.batch] # "open"}}
<1>0. a \in Assets /\ a.cleanups \subseteq [pending : SUBSET Nat, batch : Nat \ {0}]
  BY DEF ImagesOK, Assets
<1>1. dr = {}
  BY DEF BatchesIn
<1>2. y \in Assets /\ GivenBack(a, R, y) /\ y.pending = a.pending /\ y.cleanups = a.cleanups /\ SameBatches(a, y)
  BY GiveBackFacts
<1>3. x = [y EXCEPT !.dropped = dr, !.batches = bs, !.cleanups = cs]
  <2>1. y.dropped = a.dropped /\ y.batches = a.batches /\ y.cleanups = a.cleanups
    BY <1>2 DEF SameBatches
  <2> HIDE DEF y
  <2>2. x = [y EXCEPT
         !.dropped = @ \cup UNION {{n \in ReadyOf(a, c) : HasImage(a, n)} :
                                     c \in {z \in a.cleanups : a.batches[z.batch] # "open"}},
         !.batches = [b \in DOMAIN @ |-> IF b \in finished THEN "active" ELSE @[b]],
         !.cleanups = {[c EXCEPT !.pending = @ \ ReadyOf(a, c)] : c \in unfinished}]
    BY DEF PumpCleanups, y
  <2> QED
    BY <2>1, <2>2
<1>4. \A c \in a.cleanups : /\ Later2(c) \in [pending : SUBSET Nat, batch : Nat \ {0}]
                            /\ Later2(c).pending = c.pending \ ReadyOf(a, c) /\ Later2(c).batch = c.batch
  BY <1>0
<1>5. cs \subseteq [pending : SUBSET Nat, batch : Nat \ {0}]
  BY <1>4
<1>6. /\ bs \in Seq(BatchStates) /\ DOMAIN bs = DOMAIN a.batches
      /\ \A b \in DOMAIN a.batches : bs[b] = IF b \in finished THEN "active" ELSE a.batches[b]
  <2>1. a.batches \in Seq(BatchStates)
    BY <1>0, BatchTypes
  <2> HIDE DEF finished
  <2> QED
    BY <2>1 DEF BatchStates
<1>7. CleanupHandles(a) = UNION {c.pending : c \in a.cleanups}
  BY DEF CleanupHandles
<1>8. R \subseteq CleanupHandles(a) /\ \A n \in R : IsReady(a, n)
  BY <1>7 DEF ReadyOf
<1>9. UNION {c.pending : c \in cs} = CleanupHandles(a) \ R
  <2>1. ASSUME NEW n \in UNION {c.pending : c \in cs} PROVE n \in CleanupHandles(a) \ R
    <3>1. PICK c \in unfinished : n \in Later2(c).pending
      BY <2>1
    <3>2. n \in c.pending /\ ~IsReady(a, n)
      BY <1>4, <3>1 DEF ReadyOf
    <3> QED
      BY <1>7, <1>8, <3>1, <3>2
  <2>2. ASSUME NEW n \in CleanupHandles(a) \ R PROVE n \in UNION {c.pending : c \in cs}
    <3>1. PICK c \in a.cleanups : n \in c.pending
      BY <1>7, <2>2
    <3>2. n \notin ReadyOf(a, c)
      BY <2>2
    <3>3. c \in unfinished /\ n \in Later2(c).pending
      BY <1>4, <3>1, <3>2
    <3> QED
      BY <3>3
  <2> QED
    BY <2>1, <2>2
<1>10. \A d \in cs : \E c \in unfinished : d = Later2(c) /\ d.batch = c.batch
  BY <1>4
<1>11. \A c \in unfinished : Later2(c) \in cs /\ Later2(c).batch = c.batch
  BY <1>4
<1>12. \A c \in unfinished : c.batch \notin finished
  BY DEF BatchesIn
<1>13. \A c \in a.cleanups : c \in unfinished \/ c.batch \in finished
  OBVIOUS
<1>14. \A b \in finished : \E c \in a.cleanups : b = c.batch
  OBVIOUS
<1>15. unfinished \subseteq a.cleanups
  OBVIOUS
<1>16. a.cleanups = {} => cs = {}
  BY <1>15
<1> HIDE DEF x, y, bs, cs, dr, unfinished, finished, R, Later2
<1>17. /\ x \in Assets /\ x.dropped = {} /\ x.batches = bs /\ x.cleanups = cs
       /\ x.entry = y.entry /\ x.images = y.images /\ x.texture = y.texture /\ x.refused = y.refused
       /\ x.pending = a.pending /\ x.armed = a.armed
  BY <1>1, <1>2, <1>3, <1>5, <1>6 DEF Assets, BatchStates, SameBatches
<1>18. GivenBack(a, R, x)
  BY <1>2, <1>17 DEF GivenBack
<1>19. CleanupHandles(x) = CleanupHandles(a) \ R
  BY <1>9, <1>17 DEF CleanupHandles
<1>20. BatchesIn(x, ps)
  <2>1. x.armed \subseteq DOMAIN x.batches /\ \A b \in x.armed : x.batches[b] = "sealed"
    BY <1>6, <1>14, <1>17 DEF BatchesIn
  <2>2. ASSUME NEW p \in Parts, Exists(ps[p])
        PROVE  /\ ps[p].batch \in DOMAIN x.batches \ x.armed
               /\ x.batches[ps[p].batch] = IF Complete(ps[p]) THEN "sealed" ELSE "open"
               /\ \A q \in Parts \ {p} : ps[q].batch # ps[p].batch
               /\ \A c \in x.cleanups : c.batch # ps[p].batch
    <3>1. \A c \in a.cleanups : c.batch # ps[p].batch
      BY <2>2 DEF BatchesIn
    <3>2. ps[p].batch \notin finished /\ \A c \in cs : c.batch # ps[p].batch
      BY <1>10, <1>14, <1>15, <3>1
    <3> QED
      BY <1>6, <1>17, <2>2, <3>2 DEF BatchesIn
  <2>3. ASSUME NEW d \in x.cleanups
        PROVE  /\ d.batch \in DOMAIN x.batches \ x.armed /\ x.batches[d.batch] = "open"
               /\ \A e \in x.cleanups : e.batch = d.batch => e = d
    <3>1. PICK c \in unfinished : d = Later2(c) /\ d.batch = c.batch
      BY <1>10, <1>17
    <3>2. \A e \in cs : e.batch = d.batch => e = d
      BY <1>10, <1>15, <3>1 DEF BatchesIn
    <3> QED
      BY <1>6, <1>12, <1>15, <1>17, <3>1, <3>2 DEF BatchesIn
  <2>4. ASSUME NEW b \in DOMAIN x.batches
        PROVE  /\ x.batches[b] = "open" => \/ \E p \in Parts : ps[p].batch = b
                                           \/ \E c \in x.cleanups : c.batch = b
               /\ x.batches[b] = "sealed" => b \in x.armed \/ \E p \in Parts : ps[p].batch = b
    <3>1. b \in DOMAIN a.batches /\ (x.batches[b] # "active" => b \notin finished /\ x.batches[b] = a.batches[b])
      BY <1>6, <1>17
    <3>2. ASSUME NEW c \in a.cleanups, c.batch = b, b \notin finished PROVE \E d \in x.cleanups : d.batch = b
      BY <1>11, <1>13, <1>17, <3>2
    <3> QED
      BY <1>17, <3>1, <3>2 DEF BatchesIn
  <2> QED
    BY <1>17, <2>1, <2>2, <2>3, <2>4 DEF BatchesIn
<1> QED
  BY <1>8, <1>16, <1>17, <1>18, <1>19, <1>20 DEF x

(* What the waiting thread does with the images it has waited for.         *)
UploadedAll(a, hs, x) ==
  /\ ImagesOK(x) /\ Later(a, x) /\ Handles(x) = Handles(a) /\ SameRest(a, x) /\ OnlyOf(a, hs, x)
  /\ \A n \in ToSet(hs) : Done(a, n, x)

(* All of them are dealt with.                                             *)
LEMMA UploadAllFacts ==
  ASSUME NEW a, ImagesOK(a), NEW hs \in Seq(Nat), NEW H, NEW b, MayUpload(a, hs, H, b),
         \A n \in ToSet(hs) : IsReady(a, n)
  PROVE  /\ UploadedAll(a, hs, UploadEach(a, hs, b)) /\ Uploaded(a, UploadEach(a, hs, b))
         /\ Tidy(a, H) => Tidy(UploadEach(a, hs, b), H)
<1> DEFINE x == UploadEach(a, hs, b)
<1>1. AllDealt(a, hs, H, x)
  BY UploadEachFacts
<1> HIDE DEF x
<1>2. Uploaded(a, x) /\ (Tidy(a, H) => Tidy(x, H)) /\ OnlyOf(a, hs, x) /\ \A n \in ToSet(hs) : Done(a, n, x)
  BY <1>1 DEF AllDealt, UploadedSoFar
<1>3. ImagesOK(x) /\ Later(a, x)
  BY <1>2, UploadedImages, UploadedIsLater
<1>4. Handles(x) = Handles(a) /\ SameRest(a, x)
  BY <1>2 DEF Uploaded, SameRest, Handles
<1> QED
  BY <1>2, <1>3, <1>4 DEF UploadedAll, x

(* And nobody else loses one.                                              *)
LEMMA KeepUploadedAll ==
  ASSUME NEW a, ImagesOK(a), NEW up, NEW bp, NEW o, KeepIn(a, up, bp, o),
         up \subseteq Handles(a), bp \subseteq Handles(a), Apart(a, up, bp),
         NEW hs \in Seq(Nat), ToSet(hs) \subseteq Handles(a), \A n \in ToSet(hs) : IsReady(a, n),
         NEW b \in {ByKey, Automatic},
         \/ ToSet(hs) \subseteq up
         \/ \A n \in ToSet(hs) : a.entry[KeyOf(a, n)] = n
  PROVE  UploadedAll(a, hs, UploadEach(a, hs, b)) /\ KeepIn(UploadEach(a, hs, b), up, bp, o)
<1> DEFINE H == up \cup bp \cup ToSet(hs)
           x == UploadEach(a, hs, b)
<1>1. Tidy(a, up \cup bp) /\ \A n \in up \cup bp : Mine(a, up \cup bp, n)
  BY KeepTidy
<1>2. CASE ToSet(hs) \subseteq up
  <2>1. MayUpload(a, hs, up \cup bp, b)
    BY <1>1, <1>2 DEF MayUpload, Takes
  <2>2. UploadedAll(a, hs, x) /\ Uploaded(a, x) /\ Tidy(x, up \cup bp)
    BY <1>1, <2>1, UploadAllFacts
  <2> QED
    BY <2>2, KeepUploaded
<1>3. CASE \A n \in ToSet(hs) : a.entry[KeyOf(a, n)] = n
  <2>1. MayUpload(a, hs, H, b)
    BY <1>3 DEF MayUpload, Takes, Mine
  <2>2. UploadedAll(a, hs, x) /\ Uploaded(a, x)
    BY <2>1, UploadAllFacts
  <2>3. Tidy(x, up \cup bp)
    <3>1. ASSUME NEW m \in up \cup bp, Cached(x, KeyOf(x, m)) PROVE Settled(x, m)
      <4>1. m \in Handles(a) /\ KeyOf(x, m) = KeyOf(a, m) /\ KeyOf(a, m) \in Keys /\ m # 0
        BY <2>2, ImageFacts, LaterFacts DEF UploadedAll, ImagesOK
      <4>2. CASE Cached(a, KeyOf(a, m))
        <5>1. Settled(a, m)
          BY <1>1, <4>2 DEF Tidy
        <5> QED
          BY <2>2, <4>1, <5>1, LaterFacts DEF UploadedAll
      <4>3. CASE ~Cached(a, KeyOf(a, m))
        <5>1. PICK n \in ToSet(hs) : KeyOf(a, n) = KeyOf(a, m)
          BY <2>2, <3>1, <4>1, <4>3 DEF UploadedAll, OnlyOf
        <5>2. Settled(x, n) /\ a.entry[KeyOf(a, m)] = n /\ KeyOf(x, n) = KeyOf(x, m)
          BY <1>3, <2>2, <4>1, <5>1, LaterFacts DEF UploadedAll, Done
        <5>3. x.entry[KeyOf(a, m)] = n \/ x.entry[KeyOf(a, m)] = 0
          BY <2>2, <4>1, <5>2 DEF Uploaded
        <5> QED
          BY <4>1, <5>2, <5>3 DEF Settled
      <4> QED
        BY <4>2, <4>3
    <3> QED
      BY <3>1 DEF Tidy
  <2> QED
    BY <2>2, <2>3, KeepUploaded
<1> QED
  BY <1>2, <1>3
-----------------------------------------------------------------------------
(* get_raw only adds textures.                                             *)
LEMMA RawFacts ==
  ASSUME NEW a, ImagesOK(a), NEW keys, IsPlan(keys)
  PROVE  LET x == GetRaw(a, keys)
         IN  /\ ImagesOK(x) /\ Later(a, x) /\ Handles(x) = Handles(a)
             /\ x.pending = a.pending /\ x.cleanups = a.cleanups /\ SameBatches(a, x)
             /\ \A up, bp, o : KeepIn(a, up, bp, o) /\ up \subseteq Handles(a) /\ bp \subseteq Handles(a)
                  => KeepIn(x, up, bp, o)
<1> DEFINE t == [k \in Keys |->
                   IF k \in ToSet(keys) /\ ~Cached(a, k) /\ k \notin faults.undecodable \cup faults.unusable
                   THEN Raw ELSE a.texture[k]]
           x == GetRaw(a, keys)
<1>1. a \in Assets /\ t \in [Keys -> Int]
  BY ImageFacts DEF ImagesOK, Raw
<1>2. x = [a EXCEPT !.texture = t]
  BY DEF GetRaw
<1>3. \A k \in Keys : t[k] = a.texture[k] \/ (t[k] = Raw /\ ~Cached(a, k) /\ Good(k))
  BY DEF Good
<1> HIDE DEF t, x
<1>4. /\ x \in Assets /\ x.texture = t /\ x.images = a.images /\ x.entry = a.entry /\ x.refused = a.refused
      /\ x.pending = a.pending /\ x.cleanups = a.cleanups
      /\ x.batches = a.batches /\ x.armed = a.armed /\ x.dropped = a.dropped
  BY <1>1, <1>2 DEF Assets
<1>5. Handles(x) = Handles(a) /\ \A n : KeyOf(x, n) = KeyOf(a, n)
  BY <1>4 DEF Handles, KeyOf
<1>6. ImagesOK(x)
  BY <1>3, <1>4, <1>5 DEF ImagesOK, HandlesFor, Cached
<1>7. Later(a, x)
  BY <1>3, <1>4, <1>5 DEF Later
<1>8. \A k \in Keys : Cached(x, k) => Cached(a, k) \/ x.texture[k] = Raw
  BY <1>3, <1>4 DEF Cached
<1>9. ASSUME NEW up, NEW bp, NEW o, KeepIn(a, up, bp, o), up \subseteq Handles(a), bp \subseteq Handles(a)
      PROVE  KeepIn(x, up, bp, o)
  BY <1>4, <1>5, <1>7, <1>8, <1>9, KeepLater
<1> QED
  BY <1>4, <1>5, <1>6, <1>7, <1>9 DEF SameBatches, x

(* A worker is done with image n.                                          *)
Decoded(a, n, x) ==
  x = [a EXCEPT !.images[n].status = IF KeyOf(a, n) \in faults.undecodable THEN "Failed" ELSE "Ready"]

(* The images stay right, and owed by whom they were.                      *)
LEMMA DecodeFacts ==
  ASSUME NEW a, ImagesOK(a), NEW n \in Handles(a), ~IsReady(a, n), NEW x, Decoded(a, n, x)
  PROVE  /\ ImagesOK(x) /\ Later(a, x) /\ Handles(x) = Handles(a)
         /\ x.pending = a.pending /\ x.cleanups = a.cleanups /\ SameBatches(a, x)
         /\ x.entry = a.entry /\ x.texture = a.texture
         /\ \A up, bp, o : KeepIn(a, up, bp, o) /\ up \subseteq Handles(a) /\ bp \subseteq Handles(a)
              => KeepIn(x, up, bp, o)
<1> DEFINE s == IF KeyOf(a, n) \in faults.undecodable THEN "Failed" ELSE "Ready"
           i == [a.images EXCEPT ![n].status = s]
<1>0. a \in Assets /\ a.images \in Seq(Image) /\ Len(a.images) \in Nat /\ n \in 1 .. Len(a.images)
      /\ a.images[n].status = "Waiting"
  BY ImageFacts DEF ImagesOK, Assets, IsReady, Handles
<1>1. x = [a EXCEPT !.images = i]
  BY DEF Decoded
<1>2. /\ i \in Seq(Image) /\ Len(i) = Len(a.images)
      /\ \A m \in 1 .. Len(a.images) : /\ i[m].key = a.images[m].key
                                       /\ i[m].status = IF m = n THEN s ELSE a.images[m].status
  <2>1. \A m \in 1 .. Len(a.images) : a.images[m] \in Image
    BY <1>0
  <2>2. [a.images[n] EXCEPT !.status = s] \in Image
    BY <1>0, <2>1 DEF Image
  <2> QED
    BY <1>0, <2>1, <2>2 DEF Image
<1> HIDE DEF i, s
<1>3. /\ x \in Assets /\ x.images = i /\ x.texture = a.texture /\ x.entry = a.entry /\ x.refused = a.refused
      /\ x.pending = a.pending /\ x.cleanups = a.cleanups
      /\ x.batches = a.batches /\ x.armed = a.armed /\ x.dropped = a.dropped
  BY <1>0, <1>1, <1>2 DEF Assets
<1>4. Handles(x) = Handles(a) /\ \A m \in Handles(a) : KeyOf(x, m) = KeyOf(a, m)
  BY <1>2, <1>3 DEF Handles, KeyOf
<1>5. \A m \in Handles(a) : x.images[m].status = IF m = n THEN s ELSE a.images[m].status
  BY <1>2, <1>3 DEF Handles
<1>6. ImagesOK(x)
  <2>1. \A k \in Keys : /\ x.entry[k] # 0 => x.entry[k] \in HandlesFor(x, {k})
                        /\ Cached(x, k) => Good(k)
    BY <1>3, <1>4 DEF ImagesOK, HandlesFor, Cached
  <2>2. \A m \in Handles(x) : /\ x.images[m].status = "Ready" => KeyOf(x, m) \notin faults.undecodable
                              /\ x.images[m].status = "Failed" => KeyOf(x, m) \in faults.undecodable
    BY <1>4, <1>5 DEF ImagesOK, s
  <2>3. x \in Assets
    BY <1>3
  <2> QED
    BY <2>1, <2>2, <2>3 DEF ImagesOK
<1>7. Later(a, x)
  BY <1>0, <1>3, <1>4, <1>5 DEF Later
<1>8. ASSUME NEW up, NEW bp, NEW o, KeepIn(a, up, bp, o), up \subseteq Handles(a), bp \subseteq Handles(a)
      PROVE  KeepIn(x, up, bp, o)
  <2>1. \A k \in Keys : Cached(x, k) => Cached(a, k) \/ x.texture[k] = Raw
    BY <1>3 DEF Cached
  <2> QED
    BY <1>3, <1>4, <1>7, <1>8, <2>1, KeepLater
<1> QED
  BY <1>3, <1>4, <1>6, <1>7, <1>8 DEF SameBatches
-----------------------------------------------------------------------------
(* on_frame_presented. *)
LEMMA PresentFacts ==
  ASSUME NEW a, ImagesOK(a), NEW ps, BatchesIn(a, ps)
  PROVE  LET x == OnFramePresented(a)
         IN  /\ x \in Assets /\ SameImages(a, x) /\ x.pending = a.pending /\ x.cleanups = a.cleanups
             /\ BatchesIn(x, ps)
<1> DEFINE bs == [b \in DOMAIN a.batches |-> IF b \in a.armed THEN "active" ELSE a.batches[b]]
           x == OnFramePresented(a)
<1>0. a \in Assets /\ a.batches \in Seq(BatchStates)
  BY BatchTypes DEF ImagesOK
<1>1. /\ bs \in Seq(BatchStates) /\ DOMAIN bs = DOMAIN a.batches
      /\ \A b \in DOMAIN a.batches : bs[b] = IF b \in a.armed THEN "active" ELSE a.batches[b]
  BY <1>0 DEF BatchStates
<1>2. x = [a EXCEPT !.batches = bs, !.armed = {}]
  BY DEF OnFramePresented
<1> HIDE DEF bs, x
<1>3. /\ x \in Assets /\ x.batches = bs /\ x.armed = {} /\ x.dropped = a.dropped /\ SameImages(a, x)
      /\ x.pending = a.pending /\ x.cleanups = a.cleanups
  BY <1>0, <1>1, <1>2 DEF Assets, BatchStates, SameImages
<1>4. BatchesIn(x, ps)
  <2>1. ASSUME NEW b \in DOMAIN x.batches
        PROVE  /\ x.batches[b] = "open" => \/ \E p \in Parts : ps[p].batch = b
                                           \/ \E c \in x.cleanups : c.batch = b
               /\ x.batches[b] = "sealed" => b \in x.armed \/ \E p \in Parts : ps[p].batch = b
    BY <1>1, <1>3 DEF BatchesIn
  <2>2. ASSUME NEW p \in Parts, Exists(ps[p])
        PROVE  /\ ps[p].batch \in DOMAIN x.batches \ x.armed
               /\ x.batches[ps[p].batch] = IF Complete(ps[p]) THEN "sealed" ELSE "open"
               /\ \A q \in Parts \ {p} : ps[q].batch # ps[p].batch
               /\ \A c \in x.cleanups : c.batch # ps[p].batch
    BY <1>1, <1>3, <2>2 DEF BatchesIn
  <2>3. ASSUME NEW d \in x.cleanups
        PROVE  /\ d.batch \in DOMAIN x.batches \ x.armed /\ x.batches[d.batch] = "open"
               /\ \A e \in x.cleanups : e.batch = d.batch => e = d
    BY <1>1, <1>3 DEF BatchesIn
  <2>4. x.dropped = {} /\ x.armed \subseteq DOMAIN x.batches /\ \A b \in x.armed : x.batches[b] = "sealed"
    BY <1>3 DEF BatchesIn
  <2> QED
    BY <2>1, <2>2, <2>3, <2>4 DEF BatchesIn
<1> QED
  BY <1>3, <1>4 DEF x

(* What the parts of the invariant say of the next state.                  *)
LEMMA NextState ==
  ASSUME faults' = faults
  PROVE  /\ ImagesOK(assets)' <=> ImagesOK(assets')
         /\ HandlesOK' <=> HandlesIn(assets', phase', split', waiting', battle')
         /\ BatchesOK' <=> BatchesIn(assets', PreloadsOf(split', battle'))
         /\ BattleOK' <=> BattleIn(assets', battle')
         /\ LoadedOK' <=> LoadedIn(assets', at', phase', waiting')
         /\ KeepOK' <=> KeepIn(assets', UploadingOf(assets', split'), ToSet(battle'.preload.pending),
                               ToSet(waiting') \cup CleanupHandles(assets'))
<1>1. \A k : Good(k)' <=> Good(k)
  BY DEF Good
<1>2. \A keys : Lacks(keys)' <=> Lacks(keys)
  BY <1>1 DEF Lacks
<1>3. ImagesOK(assets)' <=> ImagesOK(assets')
  BY <1>1 DEF ImagesOK
<1>4. HandlesOK' <=> HandlesIn(assets', phase', split', waiting', battle')
  BY <1>2 DEF HandlesOK, HandlesIn, PreloadOK, HandlesFor, Handles, PendingKeys, CleanupHandles, Covered, Cached, Exists, KeyOf, MapKeys, Marks
<1>5. BatchesOK' <=> BatchesIn(assets', PreloadsOf(split', battle'))
  BY DEF BatchesOK, BatchesIn, Preloads, PreloadsOf, Exists, Complete, Parts
<1>6. BattleOK' <=> BattleIn(assets', battle')
  BY <1>2 DEF BattleOK, BattleIn, AllIn, Cached, Exists
<1>7. LoadedOK' <=> LoadedIn(assets', at', phase', waiting')
  BY <1>2 DEF LoadedOK, LoadedIn, AllIn, Cached, AwaitedOf, Covered, HandlesFor, Handles, KeyOf
<1>8. KeepOK' <=> KeepIn(assets', UploadingOf(assets', split'), ToSet(battle'.preload.pending),
                               ToSet(waiting') \cup CleanupHandles(assets'))
  BY <1>1 DEF KeepOK, KeepIn, UploadingOf, CleanupHandles, Settled, KeptIn, Cached, KeyOf, Handles
<1> QED
  BY <1>3, <1>4, <1>5, <1>6, <1>7, <1>8, Zenon
-----------------------------------------------------------------------------
(* What is there stays there.                                              *)
LEMMA LoadedStays ==
  ASSUME NEW a, ImagesOK(a), NEW x, Later(a, x), NEW c, NEW ph, NEW w, LoadedIn(a, c, ph, w),
         c \in {"selection", "route", "walk"} => ToSet(w) \subseteq ToSet(x.pending),
         ph \in BeforeMarks \cup {"SplitAssets"}
           => \A k \in Keys : Cached(x, k) => Cached(a, k) \/ k \in Marks,
         c = "idle" => \A n \in ToSet(w) : x.entry[KeyOf(x, n)] = n
  PROVE  LoadedIn(x, c, ph, w)
<1>1. \A keys : IsPlan(keys) /\ AllIn(a, keys) => AllIn(x, keys)
  BY AllInStays
<1>2. \A keys : IsPlan(keys) /\ AwaitedOf(a, w, keys) => AwaitedOf(x, w, keys)
  BY AwaitedStays
<1>3. Plans
  BY PlansAreGiven
<1> QED
  BY <1>1, <1>2, <1>3 DEF LoadedIn, Plans

(* The images of a movement stay.                                          *)
LEMMA ShownStays ==
  ASSUME NEW a, ImagesOK(a), NEW x, Later(a, x), AllIn(a, IdleKeys) /\ AllIn(a, WalkKeys)
  PROVE  AllIn(x, IdleKeys) /\ AllIn(x, WalkKeys)
BY AllInStays, PlansAreGiven DEF Plans

(* The first state.                                                        *)
LEMMA StartIsRight == Init => ProgramInv
<1> SUFFICES ASSUME Init PROVE ProgramInv
  OBVIOUS
<1>1. assets \in Assets /\ assets = AssetsAtStart
  <2>1. assets = AssetsAtStart
    BY DEF Init
  <2>2. << >> \in Seq(Image) /\ << >> \in Seq(Nat) /\ << >> \in Seq({"open", "sealed", "active"})
    OBVIOUS
  <2>3. [k \in Keys |-> 0] \in [Keys -> Nat] /\ [k \in Keys |-> 0] \in [Keys -> Int]
    OBVIOUS
  <2> QED
    BY <2>1, <2>2, <2>3 DEF AssetsAtStart, Assets, NoTexture
<1>2. Handles(assets) = {} /\ \A k \in Keys : assets.entry[k] = 0 /\ ~Cached(assets, k)
  BY <1>1 DEF AssetsAtStart, Handles, Cached, NoTexture
<1>3. ImagesOK(assets) /\ faults \in Faults
  BY <1>1, <1>2 DEF ImagesOK, Init
<1>4. ToSet(<< >>) = {} /\ << >> \in Seq(Nat)
  BY MembersOfNone
<1>5. HandlesOK
  BY <1>1, <1>4 DEF HandlesOK, HandlesIn, Init, AssetsAtStart, NoSplit, NoBattle, NoPreload, PreloadOK, Exists, CleanupHandles
<1>6. BatchesOK
  BY <1>1 DEF BatchesOK, BatchesIn, Init, AssetsAtStart, NoSplit, NoBattle, NoPreload, Exists, Preloads, PreloadsOf, Parts
<1>7. PhasesOK /\ ShownOK
  BY <1>1 DEF PhasesOK, ShownOK, Init, AssetsAtStart, BeforeMarks, Uploads, Waits
<1>8. LoadedOK
  BY <1>2 DEF LoadedOK, LoadedIn, Init, BeforeMarks
<1>9. BattleOK
  BY DEF BattleOK, BattleIn, Init
<1>10. KeepOK
  <2>1. /\ assets.pending = << >> /\ split.initial.pending = << >> /\ split.animation.pending = << >>
        /\ battle.preload.pending = << >>
    BY <1>1 DEF Init, AssetsAtStart, NoSplit, NoBattle, NoPreload
  <2>2. UploadingOf(assets, split) = {} /\ ToSet(battle.preload.pending) = {}
    BY <1>4, <2>1 DEF UploadingOf
  <2> QED
    BY <1>2, <2>2 DEF KeepOK, KeepIn
<1> QED
  BY <1>3, <1>5, <1>6, <1>7, <1>8, <1>9, <1>10 DEF ProgramInv
-----------------------------------------------------------------------------
(* Steps that leave the images and the preloads alone.                     *)
LEMMA SameAssetsKeep ==
  ASSUME ProgramInv, UNCHANGED <<assets, faults, waiting>>,
         split'.initial = split.initial, split'.animation = split.animation,
         split' \in [initial : {split'.initial}, animation : {split'.animation}, masks : Seq(Nat)],
         ToSet(split'.masks) \subseteq ToSet(split.masks),
         battle'.preload = battle.preload, phase = "Running" => phase' = "Running"
  PROVE  /\ ImagesOK(assets)' /\ faults' \in Faults /\ HandlesOK' /\ BatchesOK'
         /\ KeepOK => KeepOK'
<1>1. ImagesOK(assets) /\ HandlesOK /\ BatchesOK
  BY DEF ProgramInv
<1>2. ImagesOK(assets)' /\ faults' \in Faults
  BY <1>1, NextState DEF ProgramInv
<1>3. HandlesOK'
  <2>1. HandlesFor(assets, PendingKeys(phase)) \subseteq HandlesFor(assets, PendingKeys(phase'))
    BY DEF HandlesFor, PendingKeys, MapKeys
  <2>2. HandlesIn(assets, phase', split', waiting, battle')
    BY <1>1, <2>1 DEF HandlesOK, HandlesIn
  <2> QED
    BY <2>2, NextState
<1>4. BatchesOK'
  <2>1. PreloadsOf(split', battle') = PreloadsOf(split, battle)
    BY DEF PreloadsOf
  <2> QED
    BY <1>1, <2>1, NextState DEF BatchesOK, Preloads
<1>5. KeepOK => KeepOK'
  <2>1. UploadingOf(assets, split') = UploadingOf(assets, split)
    BY DEF UploadingOf
  <2> QED
    BY <2>1, NextState DEF KeepOK
<1> QED
  BY <1>2, <1>3, <1>4, <1>5

(* The places of a frame where nothing is waited for.                      *)
Free == {"events", "applyInput", "pump", "update", "applyUpdate", "render", "over"}

(* Where the thread does not wait it matters not where it is.              *)
LEMMA FreeIsLoaded ==
  ASSUME NEW a, NEW c, NEW d \in Free, NEW ph, NEW w, LoadedIn(a, c, ph, w)
  PROVE  LoadedIn(a, d, ph, w)
BY DEF LoadedIn, Free

(* Steps of the screens that touch no image.                               *)
LEMMA QuietStep ==
  ASSUME ProgramInv, OverlayInv', UNCHANGED <<assets, faults, phase, split, waiting>>,
         at \in Free \ {"over"}, at' \in Free, moving' => moving,
         phase # "Running" => UNCHANGED <<screens, transitions, battle>>,
         battle'.preload = battle.preload, BattleIn(assets, battle')
  PROVE  ProgramInv'
<1>0. ImagesOK(assets) /\ HandlesOK /\ BatchesOK /\ PhasesOK /\ LoadedOK /\ ShownOK /\ BattleOK /\ KeepOK
  BY DEF ProgramInv, Stopped, Free
<1>1. /\ ImagesOK(assets)' /\ faults' \in Faults /\ HandlesOK' /\ BatchesOK'
      /\ KeepOK'
  <2>1. split' \in [initial : {split'.initial}, animation : {split'.animation}, masks : Seq(Nat)]
    BY <1>0 DEF HandlesOK, HandlesIn
  <2> QED
    BY <1>0, <2>1, SameAssetsKeep
<1>2. LoadedOK'
  <2>1. LoadedIn(assets, at', phase, waiting)
    BY <1>0, FreeIsLoaded DEF LoadedOK
  <2> QED
    BY <2>1, NextState
<1>3. ShownOK'
  BY <1>0 DEF ShownOK, AllIn
<1>4. BattleOK'
  BY NextState
<1>5. PhasesOK'
  <2>1. transitions' # << >> /\ Head(transitions') = "Adventure" => screens' = <<"Startup">>
    BY DEF OverlayInv, TransitionFits
  <2>2. waiting = << >>
    BY <1>0 DEF PhasesOK, Free, Waits
  <2> QED
    BY <1>0, <2>1, <2>2 DEF PhasesOK, Free, Waits
<1> QED
  BY <1>1, <1>2, <1>3, <1>4, <1>5 DEF ProgramInv

(* Only the screens and the place in the frame change.                     *)
LEMMA ScreenStep ==
  ASSUME ProgramInv, OverlayInv', UNCHANGED <<assets, faults, phase, split, waiting, battle>>,
         at \in Free \ {"over"}, at' \in Free, moving' => moving,
         phase # "Running" => UNCHANGED <<screens, transitions>>
  PROVE  ProgramInv'
<1>1. BattleIn(assets, battle')
  BY DEF ProgramInv, BattleOK
<1> QED
  BY <1>1, QuietStep

(* No transition.                                                          *)
LEMMA NothingToApplyKeeps ==
  ASSUME ProgramInv, OverlayInv', NothingToApply PROVE ProgramInv'
BY ScreenStep DEF NothingToApply, Free

(* The events that touch no image.                                         *)
LEMMA PlayerKeeps ==
  ASSUME ProgramInv, OverlayInv, OverlayInv', CloseWindow \/ Cancelled \/ Inspect \/ OpenDebugBattle
  PROVE  ProgramInv'
<1>1. phase # "Running" => TopScreen = "Startup"
  BY TopsOfScreens DEF ProgramInv, PhasesOK
<1>2. CASE CloseWindow
  BY <1>2, ScreenStep DEF CloseWindow, Free
<1>3. CASE Cancelled
  BY <1>1, <1>3, ScreenStep DEF Cancelled, Free, AfterEvent
<1>4. CASE Inspect
  BY <1>1, <1>4, ScreenStep DEF Inspect, Free, AfterEvent, MapIsOnTop
<1>5. CASE OpenDebugBattle
  BY <1>1, <1>5, ScreenStep DEF OpenDebugBattle, Free, AfterEvent, MapIsOnTop
<1> QED
  BY <1>2, <1>3, <1>4, <1>5

(* A movement goes on or ends.                                             *)
LEMMA UpdateMapKeeps ==
  ASSUME ProgramInv, OverlayInv', UpdateMap PROVE ProgramInv'
<1>1. moving' => moving
  BY DEF UpdateMap
<1> QED
  BY <1>1, ScreenStep DEF UpdateMap, Free

(* The parts of the invariant make it up again.                            *)
LEMMA Rebuild ==
  ASSUME ProgramInv, UNCHANGED faults, ImagesOK(assets'),
         HandlesIn(assets', phase', split', waiting', battle'),
         BatchesIn(assets', PreloadsOf(split', battle')), BattleIn(assets', battle'),
         LoadedIn(assets', at', phase', waiting'), PhasesOK', ShownOK',
         Stopped' \/ KeepIn(assets', UploadingOf(assets', split'), ToSet(battle'.preload.pending),
                            ToSet(waiting') \cup CleanupHandles(assets'))
  PROVE  ProgramInv'
<1>1. ImagesOK(assets)' /\ HandlesOK' /\ BatchesOK' /\ BattleOK' /\ LoadedOK' /\ (~Stopped' => KeepOK')
  BY NextState
<1> QED
  BY <1>1 DEF ProgramInv

(* The handles, when the images go on and others are asked for.            *)
LEMMA HandlesMove ==
  ASSUME NEW a, ImagesOK(a), NEW x, Later(a, x), NEW ph, NEW sp, NEW w, NEW b, HandlesIn(a, ph, sp, w, b),
         NEW qh, ToSet(x.pending) \subseteq HandlesFor(x, PendingKeys(qh)),
         CleanupHandles(x) \subseteq HandlesFor(x, ToSet(BattleKeys))
  PROVE  HandlesIn(x, qh, sp, w, b)
<1>1. PreloadOK(x, sp.initial, InitialKeys) /\ PreloadOK(x, sp.animation, AnimationKeys)
      /\ PreloadOK(x, b.preload, BattleKeys)
  BY PreloadStays, PlansAreGiven DEF HandlesIn, Plans
<1>2. Handles(a) \subseteq Handles(x) /\ HandlesFor(a, ToSet(MaskKeys)) \subseteq HandlesFor(x, ToSet(MaskKeys))
  BY LaterFacts
<1> QED
  BY <1>1, <1>2 DEF HandlesIn

(* The phase stays while the program runs.                                 *)
LEMMA RunningPhases ==
  ASSUME PhasesOK, phase = "Running", UNCHANGED <<faults, phase, split>>, OverlayInv',
         at' \in Free \cup {"idle", "walk", "crashed"}, at' \in Free => waiting' = << >>,
         at' \in {"idle", "walk"} => TopScreen' = "Adventure"
  PROVE  PhasesOK'
<1>1. transitions' # << >> /\ Head(transitions') = "Adventure" => screens' = <<"Startup">>
  BY DEF OverlayInv, TransitionFits
<1> QED
  BY <1>1 DEF PhasesOK, Free, Waits, BeforeMarks, Uploads

(* No preload is a right one.                                              *)
LEMMA NothingBegun == \A x, keys : PreloadOK(x, NoPreload, keys)
BY MembersOfNone DEF PreloadOK, NoPreload, Exists

(* What a step of the running program keeps that moves the images on.      *)
LEMMA FreeStaysLoaded ==
  ASSUME ProgramInv, phase = "Running", at \in Free, at' \in Free, Later(assets, assets'),
         UNCHANGED <<phase, waiting>>, moving' => moving
  PROVE  LoadedIn(assets', at', phase', waiting') /\ ShownOK'
<1>1. ImagesOK(assets) /\ LoadedIn(assets, at, phase, waiting) /\ ShownOK
  BY DEF ProgramInv, LoadedOK
<1>2. LoadedIn(assets', at, phase, waiting)
  BY <1>1, LoadedStays DEF Free, BeforeMarks
<1>3. ShownOK'
  BY <1>1, ShownStays DEF ShownOK, AllIn, Cached
<1> QED
  BY <1>2, <1>3, FreeIsLoaded

(* The stack information asks for its portraits.                           *)
LEMMA PushInfoKeeps ==
  ASSUME ProgramInv, OverlayInv', PushInfo, phase = "Running", at \in Free \ {"over"},
         UNCHANGED <<faults, at, phase, split, waiting, moving>>
  PROVE  ProgramInv'
<1> DEFINE hs == RequestUncached(assets, InfoKeys).handles
<1>0. /\ ImagesOK(assets) /\ HandlesOK /\ BatchesOK /\ PhasesOK /\ LoadedOK /\ BattleOK /\ KeepOK
      /\ waiting = << >>
  BY DEF ProgramInv, Stopped, Free, PhasesOK, Waits
<1>1. IsPlan(InfoKeys)
  BY PlansAreGiven DEF Plans
<1>2. /\ TexturesAsked(assets, InfoKeys, assets', hs)
      /\ ToSet(assets'.pending) = ToSet(assets.pending) \cup ToSet(hs)
      /\ assets'.cleanups = assets.cleanups /\ SameBatches(assets, assets')
      /\ \A up, bp, o : /\ KeepIn(assets, up, bp, o) /\ up \subseteq Handles(assets) /\ bp \subseteq Handles(assets)
                        => KeepIn(assets', up \cup ToSet(hs), bp, o)
  BY <1>0, <1>1, TexturesFacts DEF PushInfo, SetAssets
<1> HIDE DEF hs
<1>3. ImagesOK(assets') /\ Later(assets, assets') /\ ToSet(hs) \subseteq HandlesFor(assets', ToSet(InfoKeys))
  BY <1>2 DEF TexturesAsked, AwaitedOf
<1>4. CleanupHandles(assets') = CleanupHandles(assets)
  BY <1>2 DEF CleanupHandles
<1>5. HandlesIn(assets', phase', split', waiting', battle')
  <2>1. ToSet(assets'.pending) \subseteq HandlesFor(assets', PendingKeys(phase'))
    <3>1. ToSet(assets.pending) \subseteq HandlesFor(assets', PendingKeys(phase))
      BY <1>0, <1>3, LaterFacts DEF HandlesOK, HandlesIn
    <3>2. ToSet(hs) \subseteq HandlesFor(assets', PendingKeys(phase))
      BY <1>3 DEF HandlesFor, PendingKeys, MapKeys
    <3> QED
      BY <1>2, <3>1, <3>2
  <2>2. CleanupHandles(assets') \subseteq HandlesFor(assets', ToSet(BattleKeys))
    BY <1>0, <1>3, <1>4, LaterFacts DEF HandlesOK, HandlesIn
  <2> QED
    BY <1>0, <1>3, <2>1, <2>2, HandlesMove DEF HandlesOK, PushInfo
<1>6. BatchesIn(assets', PreloadsOf(split', battle'))
  BY <1>0, <1>2, BatchesSame DEF BatchesOK, Preloads, SameBatches, PushInfo
<1>7. BattleIn(assets', battle')
  BY <1>0, <1>3, BattleStays DEF BattleOK, PushInfo
<1>8. LoadedIn(assets', at', phase', waiting') /\ ShownOK'
  BY <1>3, FreeStaysLoaded
<1>9. PhasesOK'
  BY <1>0, RunningPhases DEF Free
<1>10. KeepIn(assets', UploadingOf(assets', split'), ToSet(battle'.preload.pending),
              ToSet(waiting') \cup CleanupHandles(assets'))
  <2>1. UploadingOf(assets', split') = UploadingOf(assets, split) \cup ToSet(hs)
    BY <1>2 DEF UploadingOf
  <2>2. UploadingOf(assets, split) \subseteq Handles(assets) /\ ToSet(battle.preload.pending) \subseteq Handles(assets)
    BY <1>0, SetsApart DEF HandlesOK
  <2> QED
    BY <1>0, <1>2, <1>4, <2>1, <2>2 DEF KeepOK, PushInfo
<1> QED
  BY <1>3, <1>5, <1>6, <1>7, <1>8, <1>9, <1>10, Rebuild

(* A battle that still loads goes, and its images with it.                 *)
LEMMA CancelKeeps ==
  ASSUME ProgramInv, OverlayInv', phase = "Running", at \in Free \ {"over"},
         assets' = Cancel(assets, battle.preload),
         battle'.preload = NoPreload, BattleIn(assets, battle'),
         UNCHANGED <<faults, at, phase, split, waiting, moving>>
  PROVE  ProgramInv'
<1>0. /\ ImagesOK(assets) /\ HandlesOK /\ BatchesOK /\ PhasesOK /\ LoadedOK /\ BattleOK /\ KeepOK
      /\ waiting = << >>
  BY DEF ProgramInv, Stopped, Free, PhasesOK, Waits
<1>1. IsPlan(BattleKeys) /\ PreloadOK(assets, battle.preload, BattleKeys)
      /\ CleanupHandles(assets) \subseteq HandlesFor(assets, ToSet(BattleKeys))
      /\ ToSet(assets.pending) \subseteq HandlesFor(assets, PendingKeys(phase))
  BY <1>0, PlansAreGiven DEF Plans, HandlesOK, HandlesIn
<1>2. Preloads["battle"] = battle.preload /\ "battle" \in Parts
  BY DEF Preloads, PreloadsOf, Parts
<1>3. Exists(battle.preload) => battle.preload.batch \in DOMAIN assets.batches
  BY <1>0, <1>2 DEF BatchesOK, BatchesIn
<1>4. /\ assets' \in Assets /\ SameImages(assets, assets') /\ assets'.pending = assets.pending
      /\ CleanupHandles(assets') = CleanupHandles(assets) \cup ToSet(battle.preload.pending)
  BY <1>0, <1>1, <1>3, CancelFacts
<1>5. /\ ImagesOK(assets') /\ Later(assets, assets') /\ Handles(assets') = Handles(assets)
      /\ \A up, bp, o : KeepIn(assets, up, bp, o) => KeepIn(assets', up, bp, o)
  BY <1>0, <1>4, SameImagesFacts
<1>6. HandlesIn(assets', phase', split', waiting', battle')
  <2>1. \A S : HandlesFor(assets, S) \subseteq HandlesFor(assets', S)
    BY <1>0, <1>5, LaterFacts
  <2>2. CleanupHandles(assets') \subseteq HandlesFor(assets', ToSet(BattleKeys))
    BY <1>1, <1>4, <2>1 DEF PreloadOK
  <2>3. ToSet(assets'.pending) \subseteq HandlesFor(assets', PendingKeys(phase))
    BY <1>1, <1>4, <2>1
  <2>4. HandlesIn(assets', phase, split, waiting, battle)
    BY <1>0, <1>5, <2>2, <2>3, HandlesMove DEF HandlesOK
  <2> QED
    BY <2>4, NothingBegun DEF HandlesIn
<1>7. BatchesIn(assets', PreloadsOf(split', battle'))
  <2>1. /\ PreloadsOf(split', battle')["battle"].batch = 0
        /\ \A q \in Parts \ {"battle"} : PreloadsOf(split', battle')[q] = Preloads[q]
    BY DEF Preloads, PreloadsOf, Parts, NoPreload
  <2>2. assets \in Assets /\ BatchesIn(assets, Preloads) /\ PreloadOK(assets, Preloads["battle"], BattleKeys)
    BY <1>0, <1>1, <1>2 DEF ImagesOK, BatchesOK
  <2>3. BatchesIn(Cancel(assets, Preloads["battle"]), PreloadsOf(split', battle'))
    BY <1>2, <2>1, <2>2, BatchIsGivenUp
  <2> QED
    BY <1>2, <2>3
<1>8. BattleIn(assets', battle')
  BY <1>0, <1>5, BattleStays
<1>9. LoadedIn(assets', at', phase', waiting') /\ ShownOK'
  BY <1>5, FreeStaysLoaded
<1>10. PhasesOK'
  BY <1>0, RunningPhases DEF Free
<1>11. KeepIn(assets', UploadingOf(assets', split'), ToSet(battle'.preload.pending),
              ToSet(waiting') \cup CleanupHandles(assets'))
  <2>1. UploadingOf(assets', split') = UploadingOf(assets, split)
    BY <1>4 DEF UploadingOf
  <2>2. KeepIn(assets', UploadingOf(assets, split), ToSet(battle.preload.pending),
               ToSet(waiting) \cup CleanupHandles(assets))
    BY <1>0, <1>5 DEF KeepOK
  <2>3. ToSet(battle'.preload.pending) = {}
    BY MembersOfNone DEF NoPreload
  <2> QED
    BY <1>4, <2>1, <2>2, <2>3, KeepLess
<1> QED
  BY <1>5, <1>6, <1>7, <1>8, <1>9, <1>10, <1>11, Rebuild

(* An overlay is closed.                                                   *)
LEMMA PopKeeps ==
  ASSUME ProgramInv, OverlayInv, OverlayInv', Pop, phase = "Running", at \in Free \ {"over"},
         UNCHANGED <<faults, at, phase, split, waiting, moving>>
  PROVE  ProgramInv'
<1>1. CASE UNCHANGED <<assets, battle>>
  BY <1>1, ScreenStep
<1>2. CASE assets' = Cancel(assets, battle.preload) /\ battle' = NoBattle
  <2>1. BattleIn(assets, battle') /\ battle'.preload = NoPreload
    BY <1>2 DEF BattleIn, NoBattle
  <2> QED
    BY <1>2, <2>1, CancelKeeps
<1> QED
  BY <1>1, <1>2 DEF Pop, SetAssets

(* A transition is applied.                                                *)
LEMMA ApplyKeeps ==
  ASSUME ProgramInv, OverlayInv, OverlayInv', ApplyTransition
  PROVE  ProgramInv'
<1>1. /\ transitions # << >> /\ Apply(Head(transitions)) /\ at \in Free \ {"over"}
      /\ UNCHANGED <<faults, at, phase, split, waiting, moving>>
  BY DEF ApplyTransition, Free
<1>2. phase = "Running"
  BY <1>1 DEF ProgramInv, PhasesOK
<1>3. CASE SwitchToAdventure
  BY <1>1, <1>2, <1>3, ScreenStep DEF SwitchToAdventure
<1>4. CASE PushInfo
  BY <1>1, <1>2, <1>4, PushInfoKeeps
<1>5. CASE Head(transitions) = "Battle" /\ PushBattle
  <2>1. screens = <<"Adventure">>
    BY <1>1, <1>5 DEF OverlayInv, TransitionFits
  <2>2. battle = NoBattle
    BY <2>1, TopsOfScreens DEF OverlayInv, BattleHasScreen
  <2>3. battle'.preload = battle.preload /\ BattleIn(assets, battle')
    BY <1>5, <2>2 DEF PushBattle, NewSession, NoBattle, BattleIn, NextStage
  <2> QED
    BY <1>1, <1>2, <1>5, <2>3, QuietStep DEF PushBattle
<1>6. CASE Pop
  BY <1>1, <1>2, <1>6, PopKeeps
<1>7. Head(transitions) \in {"Adventure", "StackInfo", "Battle", "Pop"}
  BY <1>1 DEF OverlayInv, TransitionFits
<1> QED
  BY <1>1, <1>3, <1>4, <1>5, <1>6, <1>7 DEF Apply

(* A battle is restarted.                                                  *)
LEMMA RestartKeeps ==
  ASSUME ProgramInv, OverlayInv, OverlayInv', RestartScenario
  PROVE  ProgramInv'
<1>1. phase = "Running" /\ at \in Free \ {"over"}
  BY TopsOfScreens DEF ProgramInv, PhasesOK, RestartScenario, Free
<1>2. battle'.preload = NoPreload /\ BattleIn(assets, battle')
  BY DEF ProgramInv, BattleOK, RestartScenario, NewSession, BattleIn, NoBattle, NextStage
<1> QED
  BY <1>1, <1>2, CancelKeeps DEF RestartScenario, SetAssets

(* The images have gone on, and what is pending and the batches are as     *)
(* before.                                                                 *)
LEMMA Onward ==
  ASSUME ProgramInv, ImagesOK(assets'), Later(assets, assets'), assets'.pending = assets.pending,
         assets'.cleanups = assets.cleanups, SameBatches(assets, assets'), UNCHANGED <<split, battle>>,
         phase = "Running" => phase' = "Running", waiting' \in {waiting, << >>}
  PROVE  /\ HandlesIn(assets', phase', split', waiting', battle')
         /\ BatchesIn(assets', PreloadsOf(split', battle')) /\ BattleIn(assets', battle')
<1>0. ImagesOK(assets) /\ HandlesIn(assets, phase, split, waiting, battle) /\ BatchesIn(assets, PreloadsOf(split, battle))
      /\ BattleIn(assets, battle)
  BY DEF ProgramInv, HandlesOK, BatchesOK, Preloads, BattleOK
<1>1. HandlesIn(assets', phase, split, waiting, battle)
  BY <1>0, HandlesStay
<1>2. HandlesFor(assets', PendingKeys(phase)) \subseteq HandlesFor(assets', PendingKeys(phase'))
  BY DEF HandlesFor, PendingKeys, MapKeys
<1>3. HandlesIn(assets', phase', split, waiting', battle)
  <2>1. waiting' \in Seq(Nat) /\ ToSet(waiting') \subseteq Handles(assets')
    BY <1>1, MembersOfNone DEF HandlesIn
  <2> QED
    BY <1>1, <1>2, <2>1 DEF HandlesIn
<1>4. BatchesIn(assets', PreloadsOf(split, battle))
  BY <1>0, BatchesSame DEF SameBatches
<1> QED
  BY <1>0, <1>3, <1>4, BattleStays

(* Who owes what now.                                                      *)
Uploading == UploadingOf(assets, split)
BattlePart == ToSet(battle.preload.pending)
OtherPart == ToSet(waiting) \cup CleanupHandles(assets)

(* They have no key in common.                                             *)
LEMMA PartsApart ==
  ASSUME ProgramInv
  PROVE  /\ Apart(assets, Uploading, BattlePart) /\ Apart(assets, Uploading, CleanupHandles(assets))
         /\ Uploading \subseteq Handles(assets) /\ BattlePart \subseteq Handles(assets)
         /\ CleanupHandles(assets) \subseteq Handles(assets)
         /\ ToSet(assets.pending) \subseteq Uploading
         /\ waiting \in Seq(Nat) /\ ToSet(waiting) \subseteq Handles(assets)
<1>1. ImagesOK(assets) /\ HandlesIn(assets, phase, split, waiting, battle)
  BY DEF ProgramInv, HandlesOK
<1>2. ToSet(assets.pending) \subseteq Uploading
  BY DEF Uploading, UploadingOf
<1>3. waiting \in Seq(Nat) /\ ToSet(waiting) \subseteq Handles(assets)
  BY <1>1 DEF HandlesIn
<1> QED
  BY <1>1, <1>2, <1>3, SetsApart DEF Uploading, BattlePart

(* What has been asked for is added to what is pending.                    *)
LEMMA OnwardAsking ==
  ASSUME ProgramInv, NEW x, ImagesOK(x), Later(assets, x), Handles(x) = Handles(assets), SameRest(assets, x),
         NEW keys, IsPlan(keys), ToSet(keys) \subseteq PendingKeys(phase),
         assets' = RequestTextures(x, keys), waiting' = RequestUncached(x, keys).handles,
         UNCHANGED <<phase, split, battle>>,
         KeepIn(x, Uploading, BattlePart, OtherPart),
         \A n \in ToSet(waiting) : n \in ToSet(assets.pending) \/ Settled(x, n)
  PROVE  /\ ImagesOK(assets') /\ Later(x, assets') /\ assets'.texture = x.texture
         /\ HandlesIn(assets', phase', split', waiting', battle')
         /\ BatchesIn(assets', PreloadsOf(split', battle')) /\ BattleIn(assets', battle')
         /\ KeepIn(assets', UploadingOf(assets', split'), ToSet(battle'.preload.pending),
                   ToSet(waiting') \cup CleanupHandles(assets'))
         /\ AwaitedOf(assets', waiting', keys) /\ ToSet(waiting') \subseteq ToSet(assets'.pending)
         /\ assets'.cleanups = assets.cleanups
<1>0. ImagesOK(assets) /\ HandlesIn(assets, phase, split, waiting, battle) /\ BatchesIn(assets, PreloadsOf(split, battle))
      /\ BattleIn(assets, battle)
  BY DEF ProgramInv, HandlesOK, BatchesOK, Preloads, BattleOK
<1>1. /\ TexturesAsked(x, keys, assets', waiting')
      /\ ToSet(assets'.pending) = ToSet(x.pending) \cup ToSet(waiting')
      /\ assets'.cleanups = x.cleanups /\ SameBatches(x, assets')
      /\ \A up, bp, o : /\ KeepIn(x, up, bp, o) /\ up \subseteq Handles(x) /\ bp \subseteq Handles(x)
                        => KeepIn(assets', up \cup ToSet(waiting'), bp, o)
  BY TexturesFacts
<1>2. /\ ImagesOK(assets') /\ Later(x, assets') /\ assets'.texture = x.texture
      /\ AwaitedOf(assets', waiting', keys) /\ waiting' \in Seq(Nat)
  BY <1>1 DEF TexturesAsked
<1>3. Later(assets, assets')
  BY <1>2, LaterTrans
<1>4. /\ ToSet(assets'.pending) = ToSet(assets.pending) \cup ToSet(waiting')
      /\ assets'.cleanups = assets.cleanups /\ SameBatches(assets, assets')
  BY <1>1 DEF SameRest, SameBatches
<1>5. CleanupHandles(assets') = CleanupHandles(assets)
  BY <1>4 DEF CleanupHandles
<1>6. ToSet(waiting') \subseteq HandlesFor(assets', PendingKeys(phase))
  BY <1>2 DEF AwaitedOf, HandlesFor
<1>7. HandlesIn(assets', phase', split', waiting', battle')
  <2>1. \A S : HandlesFor(assets, S) \subseteq HandlesFor(assets', S)
    BY <1>0, <1>3, LaterFacts
  <2>2. CleanupHandles(assets') \subseteq HandlesFor(assets', ToSet(BattleKeys))
    BY <1>0, <1>5, <2>1 DEF HandlesIn
  <2>3. ToSet(assets'.pending) \subseteq HandlesFor(assets', PendingKeys(phase))
    BY <1>0, <1>4, <1>6, <2>1 DEF HandlesIn
  <2>4. HandlesIn(assets', phase, split, waiting, battle)
    BY <1>0, <1>3, <2>2, <2>3, HandlesMove
  <2>5. ToSet(waiting') \subseteq Handles(assets')
    BY <1>6 DEF HandlesFor
  <2> QED
    BY <1>2, <2>4, <2>5 DEF HandlesIn
<1>8. BatchesIn(assets', PreloadsOf(split', battle'))
  BY <1>0, <1>4, BatchesSame DEF SameBatches
<1>9. BattleIn(assets', battle')
  BY <1>0, <1>3, BattleStays
<1>10. KeepIn(assets', UploadingOf(assets', split'), ToSet(battle'.preload.pending),
              ToSet(waiting') \cup CleanupHandles(assets'))
  <2>1. UploadingOf(assets', split') = Uploading \cup ToSet(waiting')
    BY <1>4 DEF UploadingOf, Uploading
  <2>2. KeepIn(assets', Uploading \cup ToSet(waiting'), BattlePart, OtherPart)
    BY <1>1, PartsApart
  <2>3. \A n \in OtherPart : n \in Uploading \cup ToSet(waiting') \cup CleanupHandles(assets) \/ Settled(assets', n)
    <3>1. \A n \in ToSet(waiting) : n \in Uploading \/ Settled(assets', n)
      <4>1. \A n \in Handles(x) : Settled(x, n) => Settled(assets', n)
        BY <1>2, LaterFacts
      <4> QED
        BY <4>1, PartsApart
    <3> QED
      BY <3>1 DEF OtherPart
  <2>4. \A n \in Uploading \cup ToSet(waiting') \cup BattlePart \cup OtherPart :
          n \in Uploading \cup ToSet(waiting') \cup BattlePart \cup (ToSet(waiting') \cup CleanupHandles(assets))
            \/ Settled(assets', n)
    BY <2>3
  <2>5. KeepIn(assets', Uploading \cup ToSet(waiting'), BattlePart, ToSet(waiting') \cup CleanupHandles(assets))
    BY <2>2, <2>4, KeepLess
  <2>6. ToSet(battle'.preload.pending) = BattlePart
    BY DEF BattlePart
  <2> QED
    BY <1>5, <2>1, <2>5, <2>6
<1> QED
  BY <1>1, <1>2, <1>4, <1>7, <1>8, <1>9, <1>10

(* What an upload of all the images waited for leaves.                     *)
WaitedFor(keys, x) ==
  /\ ImagesOK(x) /\ Later(assets, x) /\ Handles(x) = Handles(assets) /\ SameRest(assets, x)
  /\ OnlyOf(assets, waiting, x) /\ KeepIn(x, Uploading, BattlePart, OtherPart)
  /\ \A n \in ToSet(waiting) : Settled(x, n)
  /\ AllUploaded(x, waiting) => AllIn(x, keys)
  /\ ~AllUploaded(x, waiting) => Lacks(keys)

(* The handles the thread waits for.                                       *)
LEMMA WaitingMembers == ASSUME ProgramInv PROVE ToSet(waiting) = {waiting[i] : i \in DOMAIN waiting}
<1>1. waiting \in Seq(Nat)
  BY PartsApart
<1>2. DOMAIN waiting = 1 .. Len(waiting)
  BY <1>1
<1>3. ToSet(waiting) = {waiting[i] : i \in 1 .. Len(waiting)}
  BY <1>1, MembersOf
<1> QED
  BY <1>2, <1>3

(* When all of them are ready and uploaded.                                *)
LEMMA WaitFacts ==
  ASSUME ProgramInv, at \in Waits, AllReady(assets, waiting), NEW keys, IsPlan(keys),
         AwaitedOf(assets, waiting, keys), NEW b \in {ByKey, Automatic},
         \/ ToSet(waiting) \subseteq ToSet(assets.pending)
         \/ \A n \in ToSet(waiting) : assets.entry[KeyOf(assets, n)] = n
  PROVE  WaitedFor(keys, UploadEach(assets, waiting, b))
<1> DEFINE x == UploadEach(assets, waiting, b)
<1>0. ImagesOK(assets) /\ KeepIn(assets, Uploading, BattlePart, OtherPart)
  BY DEF ProgramInv, KeepOK, Uploading, BattlePart, OtherPart, Stopped, Waits
<1>1. \A n \in ToSet(waiting) : IsReady(assets, n)
  BY WaitingMembers DEF AllReady
<1>2. /\ Apart(assets, Uploading, BattlePart) /\ Uploading \subseteq Handles(assets)
      /\ BattlePart \subseteq Handles(assets) /\ ToSet(assets.pending) \subseteq Uploading
      /\ waiting \in Seq(Nat) /\ ToSet(waiting) \subseteq Handles(assets)
  BY PartsApart
<1>3. UploadedAll(assets, waiting, x) /\ KeepIn(x, Uploading, BattlePart, OtherPart)
  BY <1>0, <1>1, <1>2, KeepUploadedAll
<1> HIDE DEF x
<1>4. /\ ImagesOK(x) /\ Later(assets, x) /\ Handles(x) = Handles(assets) /\ SameRest(assets, x)
      /\ OnlyOf(assets, waiting, x) /\ \A n \in ToSet(waiting) : Done(assets, n, x)
  BY <1>3 DEF UploadedAll
<1>5. \A n \in ToSet(waiting) : KeyOf(x, n) = KeyOf(assets, n) /\ KeyOf(x, n) \in ToSet(keys)
  BY <1>0, <1>2, <1>4, LaterFacts DEF AwaitedOf, HandlesFor
<1>6. \A n \in ToSet(waiting) : Settled(x, n) /\ (Cached(x, KeyOf(x, n)) \/ ~Good(KeyOf(x, n)))
  BY <1>4, <1>5 DEF Done
<1>7. ToSet(waiting) = {waiting[i] : i \in DOMAIN waiting}
  BY WaitingMembers
<1>8. AllUploaded(x, waiting) => AllIn(x, keys)
  <2>1. Covered(x, keys, ToSet(waiting))
    BY <1>0, <1>2, <1>4, CoverStays DEF AwaitedOf
  <2> QED
    BY <1>7, <2>1 DEF AllUploaded, AllIn, Covered
<1>9. ~AllUploaded(x, waiting) => Lacks(keys)
  BY <1>5, <1>6, <1>7 DEF AllUploaded, Lacks
<1> QED
  BY <1>3, <1>4, <1>6, <1>8, <1>9 DEF WaitedFor, x

(* The marks of a route are there.                                         *)
LEMMA RouteIsThereKeeps ==
  ASSUME ProgramInv, OverlayInv', RouteIsThere
  PROVE  ProgramInv'
<1>0. /\ ImagesOK(assets) /\ PhasesOK /\ LoadedIn(assets, at, phase, waiting) /\ ShownOK
      /\ at = "route" /\ AllReady(assets, waiting) /\ waiting' = << >>
      /\ assets' = UploadReady(assets, waiting)
      /\ UNCHANGED <<faults, screens, transitions, split, moving, battle>>
  BY DEF ProgramInv, LoadedOK, RouteIsThere, WaitIsOver, SetAssets
<1>1. /\ AllIn(assets, SelectKeys) /\ AwaitedOf(assets, waiting, RouteKeys)
      /\ ToSet(waiting) \subseteq ToSet(assets.pending) /\ phase = "BuildVisualResources"
  BY <1>0 DEF LoadedIn, PhasesOK
<1>2. IsPlan(SelectKeys) /\ IsPlan(RouteKeys)
  BY PlansAreGiven DEF Plans
<1>3. WaitedFor(RouteKeys, assets')
  BY <1>0, <1>1, <1>2, WaitFacts DEF UploadReady, Waits
<1>4. ImagesOK(assets') /\ Later(assets, assets') /\ SameRest(assets, assets')
  BY <1>3 DEF WaitedFor
<1>5. \/ phase' = "SplitAssets" /\ at' = "applyUpdate" /\ AllIn(assets', RouteKeys)
      \/ phase' = phase /\ at' = "crashed" /\ Lacks(RouteKeys)
  <2>1. \/ AllUploaded(assets', waiting) /\ phase' = "SplitAssets" /\ at' = "applyUpdate"
        \/ ~AllUploaded(assets', waiting) /\ phase' = phase /\ at' = "crashed"
    BY <1>0 DEF RouteIsThere, Crash
  <2> QED
    BY <1>3, <2>1 DEF WaitedFor
<1>6. /\ HandlesIn(assets', phase', split', waiting', battle')
      /\ BatchesIn(assets', PreloadsOf(split', battle')) /\ BattleIn(assets', battle')
  BY <1>0, <1>1, <1>4, Onward DEF SameRest, SameBatches
<1>7. ShownOK'
  BY <1>0, <1>1 DEF PhasesOK, ShownOK
<1>8. PhasesOK'
  BY <1>0, <1>1, <1>4, <1>5 DEF PhasesOK, BeforeMarks, Uploads, Waits, SameRest
<1>9. LoadedIn(assets', at', phase', waiting')
  <2>1. \A k \in Keys : Cached(assets', k) => k \in Marks
    <3>1. \A n \in ToSet(waiting) : KeyOf(assets, n) \in ToSet(RouteKeys)
      BY <1>1 DEF AwaitedOf, HandlesFor
    <3>2. \A k \in Keys : Cached(assets, k) => k \in Marks
      BY <1>0, <1>1 DEF LoadedIn, BeforeMarks
    <3> QED
      BY <1>3, <3>1, <3>2 DEF WaitedFor, OnlyOf, Marks
  <2>2. AllIn(assets', SelectKeys)
    BY <1>0, <1>1, <1>2, <1>4, AllInStays
  <2> QED
    BY <1>1, <1>5, <2>1, <2>2 DEF LoadedIn, BeforeMarks
<1>10. KeepIn(assets', UploadingOf(assets', split'), ToSet(battle'.preload.pending),
              ToSet(waiting') \cup CleanupHandles(assets'))
  <2>1. UploadingOf(assets', split') = Uploading /\ CleanupHandles(assets') = CleanupHandles(assets)
    BY <1>0, <1>4 DEF UploadingOf, Uploading, SameRest, CleanupHandles
  <2>2. KeepIn(assets', Uploading, BattlePart, OtherPart) /\ \A n \in ToSet(waiting) : Settled(assets', n)
    BY <1>3 DEF WaitedFor
  <2>3. KeepIn(assets', Uploading, BattlePart, ToSet(waiting') \cup CleanupHandles(assets))
    BY <2>2, KeepLess DEF OtherPart
  <2> QED
    BY <1>0, <2>1, <2>3 DEF BattlePart
<1> QED
  BY <1>0, <1>4, <1>6, <1>7, <1>8, <1>9, <1>10, Rebuild

(* Those of the selection are.                                             *)
LEMMA SelectionIsThereKeeps ==
  ASSUME ProgramInv, OverlayInv', SelectionIsThere
  PROVE  ProgramInv'
<1> DEFINE x == UploadReady(assets, waiting)
<1>0. /\ ImagesOK(assets) /\ PhasesOK /\ LoadedIn(assets, at, phase, waiting) /\ ShownOK
      /\ at = "selection" /\ AllReady(assets, waiting)
      /\ UNCHANGED <<faults, screens, transitions, phase, split, moving, battle>>
  BY DEF ProgramInv, LoadedOK, SelectionIsThere, WaitIsOver
<1>1. /\ AwaitedOf(assets, waiting, SelectKeys)
      /\ ToSet(waiting) \subseteq ToSet(assets.pending) /\ phase = "BuildVisualResources"
  BY <1>0 DEF LoadedIn, PhasesOK
<1>2. IsPlan(SelectKeys) /\ IsPlan(RouteKeys)
  BY PlansAreGiven DEF Plans
<1>3. WaitedFor(SelectKeys, x)
  BY <1>0, <1>1, <1>2, WaitFacts DEF UploadReady, Waits
<1>4. \/ /\ AllUploaded(x, waiting) /\ at' = "route"
         /\ assets' = RequestTextures(x, RouteKeys) /\ waiting' = RequestUncached(x, RouteKeys).handles
      \/ ~AllUploaded(x, waiting) /\ at' = "crashed" /\ assets' = x /\ waiting' = waiting
  BY DEF SelectionIsThere, RequestAndWait, SetAssets, Crash
<1> HIDE DEF x
<1>5. /\ ImagesOK(x) /\ Later(assets, x) /\ Handles(x) = Handles(assets) /\ SameRest(assets, x)
      /\ KeepIn(x, Uploading, BattlePart, OtherPart)
  BY <1>3 DEF WaitedFor
<1>6. ShownOK'
  BY <1>0, <1>1 DEF PhasesOK, ShownOK
<1>7. \A k \in Keys : Cached(x, k) => k \in Marks
  <2>1. \A n \in ToSet(waiting) : KeyOf(assets, n) \in ToSet(SelectKeys)
    BY <1>1 DEF AwaitedOf, HandlesFor
  <2>2. \A k \in Keys : Cached(assets, k) => k \in Marks
    BY <1>0, <1>1 DEF LoadedIn, BeforeMarks
  <2> QED
    BY <1>3, <2>1, <2>2 DEF WaitedFor, OnlyOf, Marks
<1>8. CASE /\ AllUploaded(x, waiting) /\ at' = "route"
           /\ assets' = RequestTextures(x, RouteKeys) /\ waiting' = RequestUncached(x, RouteKeys).handles
  <2>1. ToSet(RouteKeys) \subseteq PendingKeys(phase)
    BY <1>1 DEF PendingKeys, Marks
  <2>2. /\ ImagesOK(assets') /\ Later(x, assets') /\ assets'.texture = x.texture
        /\ HandlesIn(assets', phase', split', waiting', battle')
        /\ BatchesIn(assets', PreloadsOf(split', battle')) /\ BattleIn(assets', battle')
        /\ KeepIn(assets', UploadingOf(assets', split'), ToSet(battle'.preload.pending),
                  ToSet(waiting') \cup CleanupHandles(assets'))
        /\ AwaitedOf(assets', waiting', RouteKeys) /\ ToSet(waiting') \subseteq ToSet(assets'.pending)
        /\ assets'.cleanups = assets.cleanups
    BY <1>0, <1>1, <1>2, <1>5, <1>8, <2>1, OnwardAsking
  <2>3. AllIn(assets', SelectKeys)
    BY <1>2, <1>3, <1>5, <1>8, <2>2, AllInStays DEF WaitedFor
  <2>4. \A k \in Keys : Cached(assets', k) => k \in Marks
    BY <1>7, <2>2 DEF Cached
  <2>5. LoadedIn(assets', at', phase', waiting')
    BY <1>0, <1>1, <1>8, <2>2, <2>3, <2>4 DEF LoadedIn, BeforeMarks
  <2>6. PhasesOK'
    BY <1>0, <1>1, <1>8, <2>2 DEF PhasesOK, BeforeMarks, Uploads, Waits
  <2> QED
    BY <1>0, <1>6, <2>2, <2>5, <2>6, Rebuild
<1>9. CASE ~AllUploaded(x, waiting) /\ at' = "crashed" /\ assets' = x /\ waiting' = waiting
  <2>1. /\ HandlesIn(assets', phase', split', waiting', battle')
        /\ BatchesIn(assets', PreloadsOf(split', battle')) /\ BattleIn(assets', battle')
    BY <1>0, <1>5, <1>9, Onward DEF SameRest, SameBatches
  <2>2. Lacks(SelectKeys)
    BY <1>3, <1>9 DEF WaitedFor
  <2>3. LoadedIn(assets', at', phase', waiting')
    BY <1>0, <1>1, <1>7, <1>9, <2>2 DEF LoadedIn, BeforeMarks
  <2>4. PhasesOK'
    BY <1>0, <1>1, <1>5, <1>9 DEF PhasesOK, BeforeMarks, Uploads, Waits, SameRest
  <2> QED
    BY <1>0, <1>5, <1>6, <1>9, <2>1, <2>3, <2>4, Rebuild DEF Stopped
<1> QED
  BY <1>4, <1>8, <1>9

(* The images of a walk are.                                               *)
LEMMA WalkIsThereKeeps ==
  ASSUME ProgramInv, OverlayInv', WalkIsThere
  PROVE  ProgramInv'
<1>0. /\ ImagesOK(assets) /\ PhasesOK /\ LoadedIn(assets, at, phase, waiting) /\ ShownOK
      /\ at = "walk" /\ AllReady(assets, waiting) /\ waiting' = << >>
      /\ assets' = UploadReady(assets, waiting)
      /\ UNCHANGED <<faults, screens, transitions, phase, split, battle>>
  BY DEF ProgramInv, LoadedOK, WalkIsThere, WaitIsOver, SetAssets
<1>1. /\ AllIn(assets, IdleKeys) /\ AwaitedOf(assets, waiting, WalkKeys)
      /\ ToSet(waiting) \subseteq ToSet(assets.pending) /\ phase = "Running" /\ TopScreen = "Adventure"
  BY <1>0 DEF LoadedIn, PhasesOK
<1>2. IsPlan(IdleKeys) /\ IsPlan(WalkKeys)
  BY PlansAreGiven DEF Plans
<1>3. WaitedFor(WalkKeys, assets')
  BY <1>0, <1>1, <1>2, WaitFacts DEF UploadReady, Waits
<1>4. ImagesOK(assets') /\ Later(assets, assets') /\ SameRest(assets, assets')
  BY <1>3 DEF WaitedFor
<1>5. \/ AllUploaded(assets', waiting) /\ moving' = TRUE /\ at' = "applyInput"
      \/ ~AllUploaded(assets', waiting) /\ moving' = moving /\ at' = "crashed"
  BY <1>0 DEF WalkIsThere, Crash
<1>6. /\ HandlesIn(assets', phase', split', waiting', battle')
      /\ BatchesIn(assets', PreloadsOf(split', battle')) /\ BattleIn(assets', battle')
  BY <1>0, <1>1, <1>4, Onward DEF SameRest, SameBatches
<1>7. ShownOK'
  <2>1. AllIn(assets', IdleKeys)
    BY <1>0, <1>1, <1>2, <1>4, AllInStays
  <2>2. CASE AllUploaded(assets', waiting)
    <3>1. AllIn(assets', WalkKeys)
      BY <1>3, <2>2 DEF WaitedFor
    <3> QED
      BY <2>1, <3>1 DEF ShownOK, AllIn, Cached
  <2>3. CASE moving' = moving
    BY <1>0, <1>4, <2>3, ShownStays DEF ShownOK, AllIn, Cached
  <2> QED
    BY <1>5, <2>2, <2>3
<1>8. PhasesOK'
  <2>1. at' \in {"applyInput", "crashed"}
    BY <1>5
  <2> QED
    BY <1>0, <1>1, <2>1, RunningPhases DEF Free
<1>9. LoadedIn(assets', at', phase', waiting')
  <2>1. LoadedIn(assets', "events", phase, waiting')
    <3>1. LoadedIn(assets, "events", phase, waiting)
      BY <1>0, FreeIsLoaded DEF Free
    <3>2. LoadedIn(assets', "events", phase, waiting)
      BY <1>0, <1>1, <1>4, <3>1, LoadedStays DEF BeforeMarks
    <3> QED
      BY <3>2 DEF LoadedIn
  <2>2. at' = "crashed" => Lacks(WalkKeys)
    BY <1>3, <1>5 DEF WaitedFor
  <2>3. at' \in {"applyInput", "crashed"} /\ phase' = phase
    BY <1>0, <1>5
  <2> QED
    BY <2>1, <2>2, <2>3 DEF LoadedIn
<1>10. KeepIn(assets', UploadingOf(assets', split'), ToSet(battle'.preload.pending),
              ToSet(waiting') \cup CleanupHandles(assets'))
  <2>1. UploadingOf(assets', split') = Uploading /\ CleanupHandles(assets') = CleanupHandles(assets)
    BY <1>0, <1>4 DEF UploadingOf, Uploading, SameRest, CleanupHandles
  <2>2. KeepIn(assets', Uploading, BattlePart, OtherPart) /\ \A n \in ToSet(waiting) : Settled(assets', n)
    BY <1>3 DEF WaitedFor
  <2>3. KeepIn(assets', Uploading, BattlePart, ToSet(waiting') \cup CleanupHandles(assets))
    BY <2>2, KeepLess DEF OtherPart
  <2> QED
    BY <1>0, <2>1, <2>3 DEF BattlePart
<1> QED
  BY <1>0, <1>4, <1>6, <1>7, <1>8, <1>9, <1>10, Rebuild

(* A movement is asked for.                                                *)
LEMMA StartMovementKeeps ==
  ASSUME ProgramInv, OverlayInv, OverlayInv', StartMovement
  PROVE  ProgramInv'
<1>0. /\ ImagesOK(assets) /\ HandlesIn(assets, phase, split, waiting, battle)
      /\ BatchesIn(assets, PreloadsOf(split, battle)) /\ BattleIn(assets, battle) /\ PhasesOK
      /\ LoadedIn(assets, at, phase, waiting) /\ ShownOK
      /\ KeepIn(assets, Uploading, BattlePart, OtherPart)
      /\ at = "events" /\ TopScreen = "Adventure" /\ at' = "idle" /\ ~moving
      /\ assets' = RequestBatch(assets, IdleKeys).a /\ waiting' = RequestBatch(assets, IdleKeys).handles
      /\ UNCHANGED <<faults, screens, transitions, phase, split, moving, battle>>
  BY DEF ProgramInv, HandlesOK, BatchesOK, Preloads, BattleOK, LoadedOK, KeepOK, Uploading, BattlePart, OtherPart,
         Stopped, StartMovement, MapIsOnTop, SetAssets
<1>1. phase = "Running" /\ TopScreen' = "Adventure" /\ waiting = << >>
  BY <1>0, TopsOfScreens DEF PhasesOK, Waits, TopScreen
<1>2. IsPlan(IdleKeys)
  BY PlansAreGiven DEF Plans
<1>3. /\ ImagesOK(assets') /\ Asks(assets, assets') /\ Later(assets, assets') /\ waiting' \in Seq(Nat)
      /\ AwaitedOf(assets', waiting', IdleKeys)
      /\ \A n \in ToSet(waiting') : assets'.entry[KeyOf(assets', n)] = n
      /\ \A n \in Handles(assets') \ Handles(assets) : n \in ToSet(waiting')
  BY <1>0, <1>2, BatchFacts
<1>4. assets'.pending = assets.pending /\ assets'.cleanups = assets.cleanups /\ SameBatches(assets, assets')
  BY <1>3 DEF Asks, SameBatches
<1>5. HandlesIn(assets', phase', split', waiting', battle')
  <2>1. HandlesIn(assets', phase, split, waiting, battle)
    BY <1>0, <1>3, <1>4, HandlesStay
  <2>2. ToSet(waiting') \subseteq Handles(assets')
    BY <1>3 DEF AwaitedOf, HandlesFor
  <2> QED
    BY <1>0, <1>3, <2>1, <2>2 DEF HandlesIn
<1>6. BatchesIn(assets', PreloadsOf(split', battle'))
  BY <1>0, <1>4, BatchesSame DEF SameBatches
<1>7. BattleIn(assets', battle')
  BY <1>0, <1>3, BattleStays
<1>8. LoadedIn(assets', at', phase', waiting')
  <2>1. LoadedIn(assets', at, phase, waiting)
    BY <1>0, <1>1, <1>3, LoadedStays DEF BeforeMarks
  <2> QED
    BY <1>0, <1>1, <1>3, <2>1 DEF LoadedIn
<1>9. PhasesOK' /\ ShownOK'
  BY <1>0, <1>1, RunningPhases DEF Free, ShownOK
<1>10. KeepIn(assets', UploadingOf(assets', split'), ToSet(battle'.preload.pending),
              ToSet(waiting') \cup CleanupHandles(assets'))
  <2>1. UploadingOf(assets', split') = Uploading /\ CleanupHandles(assets') = CleanupHandles(assets)
        /\ ToSet(battle'.preload.pending) = BattlePart
    BY <1>0, <1>4 DEF UploadingOf, Uploading, CleanupHandles, BattlePart
  <2>2. OtherPart \subseteq ToSet(waiting') \cup CleanupHandles(assets)
    BY <1>1, MembersOfNone DEF OtherPart
  <2>3. Uploading \subseteq Handles(assets) /\ BattlePart \subseteq Handles(assets)
    BY PartsApart
  <2>4. KeepIn(assets', Uploading, BattlePart, ToSet(waiting') \cup CleanupHandles(assets))
    BY <1>0, <1>3, <2>2, <2>3, KeepAsked
  <2> QED
    BY <2>1, <2>4
<1> QED
  BY <1>0, <1>3, <1>5, <1>6, <1>7, <1>8, <1>9, <1>10, Rebuild

(* What a movement's preparation gives back, it gives back whole.          *)
LEMMA IdleFails ==
  ASSUME ProgramInv, OverlayInv', at = "idle", AllReady(assets, waiting), DecodingFailed \/ UploadFailed
  PROVE  /\ ImagesOK(assets') /\ Later(assets, assets') /\ Lacks(IdleKeys)
         /\ assets'.pending = assets.pending /\ assets'.cleanups = assets.cleanups
         /\ SameBatches(assets, assets')
<1>0. ImagesOK(assets) /\ LoadedIn(assets, at, phase, waiting) /\ IsPlan(IdleKeys)
  BY PlansAreGiven DEF ProgramInv, LoadedOK, Plans
<1>1. /\ AwaitedOf(assets, waiting, IdleKeys)
      /\ \A n \in ToSet(waiting) : assets.entry[KeyOf(assets, n)] = n
  BY <1>0 DEF LoadedIn
<1>2. waiting \in Seq(Nat) /\ Len(waiting) \in Nat /\ DOMAIN waiting = 1 .. Len(waiting)
      /\ ToSet(waiting) \subseteq Handles(assets)
      /\ ToSet(waiting) = {waiting[i] : i \in DOMAIN waiting}
  BY PartsApart, WaitingMembers
<1>3. \A n \in ToSet(waiting) : IsReady(assets, n) /\ KeyOf(assets, n) \in ToSet(IdleKeys)
  BY <1>1, <1>2 DEF AllReady, AwaitedOf, HandlesFor
<1>4. CASE DecodingFailed
  <2>1. PICK bad \in DOMAIN waiting :
          FirstOf(bad, Undecoded) /\ assets' = GiveBack(assets, {waiting[i] : i \in 1 .. bad - 1})
    BY <1>4 DEF DecodingFailed, SetAssets
  <2>2. ~HasImage(assets, waiting[bad]) /\ waiting[bad] \in ToSet(waiting)
    BY <1>2, <2>1 DEF FirstOf, Undecoded
  <2>3. ~Good(KeyOf(assets, waiting[bad]))
    <3>1. assets.images[waiting[bad]].status = "Failed"
      BY <1>0, <1>2, <1>3, <2>2, ImageFacts DEF HasImage, IsReady, ImagesOK
    <3> QED
      BY <1>0, <1>2, <2>2, <3>1 DEF ImagesOK, Good
  <2>4. Lacks(IdleKeys)
    BY <1>3, <2>2, <2>3 DEF Lacks
  <2>5. \E R : assets' = GiveBack(assets, R)
    BY <2>1
  <2> QED
    BY <1>0, <2>4, <2>5, GiveBackFacts, GivenBackFacts
<1>5. CASE UploadFailed
  <2>1. PICK bad \in DOMAIN waiting :
          /\ FirstOf(bad, NoTextureFor)
          /\ assets' = GiveBack(UploadIdle(assets, SubSeq(waiting, 1, bad)),
                                {waiting[i] : i \in bad + 1 .. Len(waiting)})
    BY <1>5 DEF UploadFailed, SetAssets
  <2> DEFINE s == SubSeq(waiting, 1, bad)
             x == UploadIdle(assets, s)
  <2>2. s \in Seq(Nat) /\ ToSet(s) \subseteq ToSet(waiting)
    <3>1. bad \in 1 .. Len(waiting)
      BY <1>2, <2>1
    <3>2. s \in Seq(Nat) /\ Len(s) = bad /\ \A i \in 1 .. bad : s[i] = waiting[i]
      BY <1>2, <3>1
    <3> HIDE DEF s
    <3>3. ToSet(s) = {s[i] : i \in 1 .. Len(s)}
      BY <3>2, MembersOf
    <3>4. ASSUME NEW n \in ToSet(s) PROVE n \in ToSet(waiting)
      <4>1. PICK i \in 1 .. Len(s) : n = s[i]
        BY <3>3
      <4>2. i \in DOMAIN waiting /\ n = waiting[i]
        BY <1>2, <3>1, <3>2, <4>1
      <4> QED
        BY <1>2, <4>2
    <3> QED
      BY <3>2, <3>4
  <2> HIDE DEF s
  <2>3. MayUpload(assets, s, ToSet(waiting), Automatic)
    BY <1>1, <1>2, <2>2 DEF MayUpload, Mine, Takes
  <2>4. UploadedAll(assets, s, x)
    BY <1>0, <1>3, <2>2, <2>3, UploadAllFacts DEF UploadIdle
  <2> HIDE DEF x
  <2>5. ImagesOK(x) /\ Later(assets, x) /\ SameRest(assets, x)
    BY <2>4 DEF UploadedAll
  <2>6. assets' \in Assets /\ ImagesOK(assets') /\ Later(x, assets')
        /\ assets'.pending = x.pending /\ assets'.cleanups = x.cleanups /\ SameBatches(x, assets')
    <3>1. \E R : assets' = GiveBack(x, R)
      BY <2>1 DEF x, s
    <3> QED
      BY <2>5, <3>1, GiveBackFacts, GivenBackFacts
  <2>7. Later(assets, assets')
    BY <2>5, <2>6, LaterTrans
  <2>8. Lacks(IdleKeys)
    <3>1. ~AllUploaded(UploadEach(assets, waiting, Automatic), waiting)
      <4>1. ~Cached(UploadIdle(assets, waiting), KeyOf(assets, waiting[bad]))
        BY <2>1 DEF FirstOf, NoTextureFor
      <4>2. WaitedFor(IdleKeys, UploadEach(assets, waiting, Automatic))
        BY <1>0, <1>1, WaitFacts DEF Waits
      <4>3. KeyOf(UploadEach(assets, waiting, Automatic), waiting[bad]) = KeyOf(assets, waiting[bad])
        BY <1>0, <1>2, <2>1, <4>2, LaterFacts DEF WaitedFor
      <4> QED
        BY <2>1, <4>1, <4>3 DEF AllUploaded, UploadIdle
    <3>2. WaitedFor(IdleKeys, UploadEach(assets, waiting, Automatic))
      BY <1>0, <1>1, WaitFacts DEF Waits
    <3> QED
      BY <3>1, <3>2 DEF WaitedFor
  <2> QED
    BY <2>5, <2>6, <2>7, <2>8 DEF SameRest, SameBatches
<1> QED
  BY <1>4, <1>5

(* The images of a standing stack are there, or one of them is not.        *)
LEMMA IdleIsThereKeeps ==
  ASSUME ProgramInv, OverlayInv', IdleIsThere
  PROVE  ProgramInv'
<1> DEFINE x == UploadEach(assets, waiting, Automatic)
<1>0. /\ ImagesOK(assets) /\ PhasesOK /\ LoadedIn(assets, at, phase, waiting) /\ ShownOK
      /\ at = "idle" /\ AllReady(assets, waiting)
      /\ UNCHANGED <<faults, screens, transitions, phase, split, moving, battle>>
  BY DEF ProgramInv, LoadedOK, IdleIsThere, WaitIsOver
<1>1. /\ AwaitedOf(assets, waiting, IdleKeys)
      /\ \A n \in ToSet(waiting) : assets.entry[KeyOf(assets, n)] = n
      /\ phase = "Running" /\ TopScreen = "Adventure"
  BY <1>0 DEF LoadedIn, PhasesOK
<1>2. IsPlan(IdleKeys) /\ IsPlan(WalkKeys)
  BY PlansAreGiven DEF Plans
<1>3. WaitedFor(IdleKeys, x)
  BY <1>0, <1>1, <1>2, WaitFacts DEF Waits
<1>4. \/ (DecodingFailed \/ UploadFailed) /\ at' = "crashed" /\ waiting' = << >>
      \/ NoTextureFor = {} /\ at' = "walk" /\ assets' = RequestTextures(x, WalkKeys)
         /\ waiting' = RequestUncached(x, WalkKeys).handles
  BY DEF IdleIsThere, RequestAndWait, SetAssets, Crash, UploadIdle
<1> HIDE DEF x
<1>5. /\ ImagesOK(x) /\ Later(assets, x) /\ Handles(x) = Handles(assets) /\ SameRest(assets, x)
      /\ KeepIn(x, Uploading, BattlePart, OtherPart) /\ \A n \in ToSet(waiting) : Settled(x, n)
  BY <1>3 DEF WaitedFor
<1>6. LoadedIn(assets, "events", phase, waiting)
  BY <1>0, FreeIsLoaded DEF Free
<1>7. PhasesOK'
  <2>1. at' \in {"walk", "crashed"} /\ TopScreen' = "Adventure"
    BY <1>0, <1>1, <1>4 DEF TopScreen
  <2> QED
    BY <1>0, <1>1, <2>1, RunningPhases DEF Free
<1>8. ASSUME ImagesOK(assets'), Later(assets, assets')
      PROVE  ShownOK' /\ LoadedIn(assets', "events", phase, waiting)
  <2>1. ShownOK'
    BY <1>0, <1>8, ShownStays DEF ShownOK, AllIn, Cached
  <2> QED
    BY <1>0, <1>1, <1>6, <1>8, <2>1, LoadedStays DEF BeforeMarks
<1>9. CASE (DecodingFailed \/ UploadFailed) /\ at' = "crashed" /\ waiting' = << >>
  <2>1. /\ ImagesOK(assets') /\ Later(assets, assets') /\ Lacks(IdleKeys)
        /\ assets'.pending = assets.pending /\ assets'.cleanups = assets.cleanups
        /\ SameBatches(assets, assets')
    BY <1>0, <1>9, IdleFails
  <2>2. /\ HandlesIn(assets', phase', split', waiting', battle')
        /\ BatchesIn(assets', PreloadsOf(split', battle')) /\ BattleIn(assets', battle')
    BY <1>0, <1>9, <2>1, Onward
  <2>3. LoadedIn(assets', at', phase', waiting')
    BY <1>0, <1>8, <1>9, <2>1 DEF LoadedIn
  <2> QED
    BY <1>0, <1>7, <1>8, <1>9, <2>1, <2>2, <2>3, Rebuild DEF Stopped
<1>10. CASE NoTextureFor = {} /\ at' = "walk" /\ assets' = RequestTextures(x, WalkKeys)
            /\ waiting' = RequestUncached(x, WalkKeys).handles
  <2>1. ToSet(WalkKeys) \subseteq PendingKeys(phase)
    BY <1>1 DEF PendingKeys, MapKeys
  <2>2. /\ ImagesOK(assets') /\ Later(x, assets') /\ assets'.texture = x.texture
        /\ HandlesIn(assets', phase', split', waiting', battle')
        /\ BatchesIn(assets', PreloadsOf(split', battle')) /\ BattleIn(assets', battle')
        /\ KeepIn(assets', UploadingOf(assets', split'), ToSet(battle'.preload.pending),
                  ToSet(waiting') \cup CleanupHandles(assets'))
        /\ AwaitedOf(assets', waiting', WalkKeys) /\ ToSet(waiting') \subseteq ToSet(assets'.pending)
        /\ assets'.cleanups = assets.cleanups
    BY <1>0, <1>2, <1>5, <1>10, <2>1, OnwardAsking
  <2>3. AllIn(assets', IdleKeys)
    <3>1. AllUploaded(x, waiting)
      <4>1. \A i \in DOMAIN waiting : waiting[i] \in Handles(assets)
        BY PartsApart, WaitingMembers
      <4>2. \A i \in DOMAIN waiting : KeyOf(x, waiting[i]) = KeyOf(assets, waiting[i])
        BY <1>0, <1>5, <4>1, LaterFacts
      <4> QED
        BY <1>10, <4>2 DEF NoTextureFor, AllUploaded, UploadIdle, x
    <3>2. AllIn(x, IdleKeys)
      BY <1>3, <3>1 DEF WaitedFor
    <3> QED
      BY <1>2, <1>5, <2>2, <3>2, AllInStays
  <2>4. Later(assets, assets')
    BY <1>5, <2>2, LaterTrans
  <2>5. LoadedIn(assets', at', phase', waiting')
    BY <1>0, <1>1, <1>8, <1>10, <2>2, <2>3, <2>4 DEF LoadedIn
  <2> QED
    BY <1>0, <1>7, <1>8, <2>2, <2>4, <2>5, Rebuild
<1> QED
  BY <1>4, <1>9, <1>10

(* The phase stays while the frame goes on.                                *)
LEMMA FramePhases ==
  ASSUME PhasesOK, UNCHANGED <<faults, phase, screens, transitions, moving, battle, split, waiting>>,
         assets.cleanups = {} => assets'.cleanups = {}, at' = at \/ (at \in Free /\ at' \in Free)
  PROVE  PhasesOK'
BY DEF PhasesOK, Free, Waits, TopScreen

(* The cleanups of a frame.                                                *)
LEMMA EndOfEventsKeeps ==
  ASSUME ProgramInv, EndOfEvents
  PROVE  ProgramInv'
<1>0. /\ ImagesOK(assets) /\ HandlesIn(assets, phase, split, waiting, battle)
      /\ BatchesIn(assets, PreloadsOf(split, battle)) /\ BattleIn(assets, battle) /\ PhasesOK
      /\ LoadedIn(assets, at, phase, waiting) /\ ShownOK
      /\ KeepIn(assets, Uploading, BattlePart, OtherPart)
      /\ at = "events" /\ at' = "pump" /\ assets' = PumpCleanups(assets)
      /\ UNCHANGED <<faults, screens, transitions, phase, split, waiting, moving, battle>>
  BY DEF ProgramInv, HandlesOK, BatchesOK, Preloads, BattleOK, LoadedOK, KeepOK, Uploading, BattlePart, OtherPart,
         Stopped, EndOfEvents, SetAssets
<1>1. /\ assets' \in Assets /\ assets'.pending = assets.pending
      /\ BatchesIn(assets', PreloadsOf(split, battle))
      /\ assets.cleanups = {} => assets'.cleanups = {}
      /\ \E R \in SUBSET CleanupHandles(assets) :
           /\ GivenBack(assets, R, assets') /\ CleanupHandles(assets') = CleanupHandles(assets) \ R
           /\ \A n \in R : IsReady(assets, n)
  BY <1>0, PartsApart, PumpCleanupsFacts
<1>2. PICK R \in SUBSET CleanupHandles(assets) :
        /\ GivenBack(assets, R, assets') /\ CleanupHandles(assets') = CleanupHandles(assets) \ R
        /\ \A n \in R : IsReady(assets, n)
  BY <1>1
<1>3. /\ ImagesOK(assets') /\ Later(assets, assets') /\ Handles(assets') = Handles(assets)
      /\ \A n \in R : Settled(assets', n)
  BY <1>0, <1>1, <1>2, PartsApart, GivenBackFacts
<1>4. HandlesIn(assets', phase', split', waiting', battle')
  <2>1. \A S : HandlesFor(assets, S) \subseteq HandlesFor(assets', S)
    BY <1>0, <1>3, LaterFacts
  <2>2. CleanupHandles(assets') \subseteq HandlesFor(assets', ToSet(BattleKeys))
    BY <1>0, <1>2, <2>1 DEF HandlesIn
  <2>3. ToSet(assets'.pending) \subseteq HandlesFor(assets', PendingKeys(phase))
    BY <1>0, <1>1, <2>1 DEF HandlesIn
  <2> QED
    BY <1>0, <1>3, <2>2, <2>3, HandlesMove
<1>5. BattleIn(assets', battle')
  BY <1>0, <1>3, BattleStays
<1>6. PhasesOK'
  BY <1>0, <1>1, FramePhases DEF Free
<1>7. ShownOK'
  BY <1>0, <1>3, ShownStays DEF ShownOK, AllIn, Cached
<1>8. LoadedIn(assets', at', phase', waiting')
  <2>1. \A k \in Keys : Cached(assets', k) => Cached(assets, k)
    BY <1>2 DEF GivenBack, Cached
  <2>2. LoadedIn(assets', at, phase, waiting)
    BY <1>0, <1>3, <2>1, LoadedStays
  <2> QED
    BY <1>0, <2>2, FreeIsLoaded DEF Free
<1>9. KeepIn(assets', UploadingOf(assets', split'), ToSet(battle'.preload.pending),
              ToSet(waiting') \cup CleanupHandles(assets'))
  <2>1. UploadingOf(assets', split') = Uploading /\ ToSet(battle'.preload.pending) = BattlePart
    BY <1>0, <1>1 DEF UploadingOf, Uploading, BattlePart
  <2>2. Apart(assets, Uploading, R) /\ R \subseteq Handles(assets)
    BY <1>2, PartsApart DEF Apart
  <2>3. KeepIn(assets', Uploading, BattlePart, OtherPart)
    BY <1>0, <1>1, <1>2, <2>2, PartsApart, KeepGivenBack
  <2>4. \A n \in OtherPart : n \in ToSet(waiting) \cup CleanupHandles(assets') \/ Settled(assets', n)
    BY <1>2, <1>3 DEF OtherPart
  <2>5. KeepIn(assets', Uploading, BattlePart, ToSet(waiting) \cup CleanupHandles(assets'))
    BY <2>3, <2>4, KeepLess
  <2> QED
    BY <1>0, <2>1, <2>5
<1> QED
  BY <1>0, <1>1, <1>3, <1>4, <1>5, <1>6, <1>7, <1>8, <1>9, Rebuild

(* The uploads of a frame.                                                 *)
LEMMA PumpKeeps ==
  ASSUME ProgramInv, Pump
  PROVE  ProgramInv'
<1>0. /\ ImagesOK(assets) /\ HandlesIn(assets, phase, split, waiting, battle)
      /\ BatchesIn(assets, PreloadsOf(split, battle)) /\ BattleIn(assets, battle) /\ PhasesOK
      /\ LoadedIn(assets, at, phase, waiting) /\ ShownOK
      /\ KeepIn(assets, Uploading, BattlePart, OtherPart)
      /\ at = "pump" /\ at' = "update" /\ \E budget \in Budgets(assets.pending) : assets' = PumpUploads(assets, budget)
      /\ UNCHANGED <<faults, screens, transitions, phase, split, waiting, moving, battle>>
  BY DEF ProgramInv, HandlesOK, BatchesOK, Preloads, BattleOK, LoadedOK, KeepOK, Uploading, BattlePart, OtherPart,
         Stopped, Pump, SetAssets
<1>1. PICK budget \in Nat : assets' = PumpUploads(assets, budget)
  BY <1>0 DEF Budgets
<1> DEFINE up == ToSet(split.initial.pending) \cup ToSet(split.animation.pending)
<1>2. Uploading = up \cup ToSet(assets.pending)
  BY DEF Uploading, UploadingOf
<1> HIDE DEF up
<1>3. /\ ImagesOK(assets') /\ Later(assets, assets') /\ Handles(assets') = Handles(assets)
      /\ ToSet(assets'.pending) \subseteq ToSet(assets.pending)
      /\ assets'.cleanups = assets.cleanups /\ SameBatches(assets, assets')
      /\ KeepIn(assets', up \cup ToSet(assets'.pending), BattlePart, OtherPart)
      /\ \A k \in Keys : Cached(assets', k)
           => Cached(assets, k) \/ \E n \in ToSet(assets.pending) : KeyOf(assets, n) = k
  <2>1. /\ KeepIn(assets, up \cup ToSet(assets.pending), BattlePart, OtherPart)
        /\ up \subseteq Handles(assets) /\ ToSet(assets.pending) \subseteq Handles(assets)
        /\ BattlePart \subseteq Handles(assets) /\ Apart(assets, up \cup ToSet(assets.pending), BattlePart)
    BY <1>0, <1>2, PartsApart
  <2> QED
    BY <1>0, <1>1, <2>1, PumpFacts
<1>4. CleanupHandles(assets') = CleanupHandles(assets)
  BY <1>3 DEF CleanupHandles
<1>5. HandlesIn(assets', phase', split', waiting', battle')
  <2>1. \A S : HandlesFor(assets, S) \subseteq HandlesFor(assets', S)
    BY <1>0, <1>3, LaterFacts
  <2>2. CleanupHandles(assets') \subseteq HandlesFor(assets', ToSet(BattleKeys))
    BY <1>0, <1>4, <2>1 DEF HandlesIn
  <2>3. ToSet(assets'.pending) \subseteq HandlesFor(assets', PendingKeys(phase))
    BY <1>0, <1>3, <2>1 DEF HandlesIn
  <2> QED
    BY <1>0, <1>3, <2>2, <2>3, HandlesMove
<1>6. BatchesIn(assets', PreloadsOf(split', battle'))
  BY <1>0, <1>3, BatchesSame DEF SameBatches
<1>7. BattleIn(assets', battle')
  BY <1>0, <1>3, BattleStays
<1>8. PhasesOK'
  BY <1>0, <1>3, FramePhases DEF Free
<1>9. ShownOK'
  BY <1>0, <1>3, ShownStays DEF ShownOK, AllIn, Cached
<1>10. LoadedIn(assets', at', phase', waiting')
  <2>1. phase # "Running" => \A n \in ToSet(assets.pending) : KeyOf(assets, n) \in Marks
    BY <1>0 DEF HandlesIn, HandlesFor, PendingKeys
  <2>2. LoadedIn(assets', at, phase, waiting)
    BY <1>0, <1>3, <2>1, LoadedStays DEF BeforeMarks
  <2> QED
    BY <1>0, <2>2, FreeIsLoaded DEF Free
<1>11. KeepIn(assets', UploadingOf(assets', split'), ToSet(battle'.preload.pending),
               ToSet(waiting') \cup CleanupHandles(assets'))
  <2>1. UploadingOf(assets', split') = up \cup ToSet(assets'.pending) /\ ToSet(battle'.preload.pending) = BattlePart
    BY <1>0 DEF UploadingOf, BattlePart, up
  <2> QED
    BY <1>0, <1>3, <1>4, <2>1 DEF OtherPart
<1> QED
  BY <1>0, <1>3, <1>5, <1>6, <1>7, <1>8, <1>9, <1>10, <1>11, Rebuild

(* The end of a frame.                                                     *)
LEMMA RenderKeeps ==
  ASSUME ProgramInv, OverlayInv, Render
  PROVE  ProgramInv'
<1> DEFINE x == DrawFaces(assets)
<1>0. /\ ImagesOK(assets) /\ HandlesIn(assets, phase, split, waiting, battle)
      /\ BatchesIn(assets, PreloadsOf(split, battle)) /\ BattleIn(assets, battle) /\ PhasesOK
      /\ LoadedIn(assets, at, phase, waiting) /\ ShownOK
      /\ KeepIn(assets, Uploading, BattlePart, OtherPart)
      /\ at = "render" /\ at' \in {"over", "events"} /\ assets' = OnFramePresented(x)
      /\ UNCHANGED <<faults, screens, transitions, phase, split, waiting, moving, battle>>
  BY DEF ProgramInv, HandlesOK, BatchesOK, Preloads, BattleOK, LoadedOK, KeepOK, Uploading, BattlePart, OtherPart,
         Stopped, Render, SetAssets
<1>1. /\ ImagesOK(x) /\ Later(assets, x) /\ Handles(x) = Handles(assets)
      /\ x.pending = assets.pending /\ x.cleanups = assets.cleanups /\ SameBatches(assets, x)
      /\ \A up, bp, o : KeepIn(assets, up, bp, o) /\ up \subseteq Handles(assets) /\ bp \subseteq Handles(assets)
           => KeepIn(x, up, bp, o)
      /\ phase # "Running" => x = assets
  <2>1. IsPlan(FaceKeys)
    BY PlansAreGiven DEF Plans
  <2>2. CASE x = assets
    <3>1. Later(assets, assets) /\ SameBatches(assets, assets)
      BY DEF Later, SameBatches
    <3> QED
      BY <1>0, <2>2, <3>1
  <2>3. CASE x = GetRaw(assets, FaceKeys) /\ TopScreen = "Battle"
    <3>1. phase = "Running"
      BY <1>0, <2>3, TopsOfScreens DEF PhasesOK
    <3> QED
      BY <1>0, <2>1, <2>3, <3>1, RawFacts
  <2> QED
    BY <2>2, <2>3 DEF DrawFaces
<1> HIDE DEF x
<1>2. BatchesIn(x, PreloadsOf(split, battle))
  BY <1>0, <1>1, BatchesSame DEF SameBatches
<1>3. /\ assets' \in Assets /\ SameImages(x, assets') /\ assets'.pending = x.pending /\ assets'.cleanups = x.cleanups
      /\ BatchesIn(assets', PreloadsOf(split, battle))
  BY <1>0, <1>1, <1>2, PresentFacts
<1>4. /\ ImagesOK(assets') /\ Later(x, assets') /\ Handles(assets') = Handles(x)
      /\ \A up, bp, o : KeepIn(x, up, bp, o) => KeepIn(assets', up, bp, o)
  BY <1>1, <1>3, SameImagesFacts
<1>5. Later(assets, assets')
  BY <1>1, <1>4, LaterTrans
<1>6. assets'.pending = assets.pending /\ assets'.cleanups = assets.cleanups
      /\ CleanupHandles(assets') = CleanupHandles(assets)
  BY <1>1, <1>3 DEF CleanupHandles
<1>7. HandlesIn(assets', phase', split', waiting', battle')
  BY <1>0, <1>5, <1>6, HandlesStay
<1>8. BattleIn(assets', battle')
  BY <1>0, <1>5, BattleStays
<1>9. PhasesOK'
  BY <1>0, <1>6, FramePhases DEF Free
<1>10. ShownOK'
  BY <1>0, <1>5, ShownStays DEF ShownOK, AllIn, Cached
<1>11. LoadedIn(assets', at', phase', waiting')
  <2>1. phase # "Running" => \A k \in Keys : Cached(assets', k) => Cached(assets, k)
    BY <1>1, <1>3 DEF SameImages, Cached
  <2>2. LoadedIn(assets', at, phase, waiting)
    BY <1>0, <1>5, <2>1, LoadedStays DEF BeforeMarks
  <2> QED
    BY <1>0, <2>2, FreeIsLoaded DEF Free
<1>12. KeepIn(assets', UploadingOf(assets', split'), ToSet(battle'.preload.pending),
               ToSet(waiting') \cup CleanupHandles(assets'))
  <2>1. UploadingOf(assets', split') = Uploading /\ ToSet(battle'.preload.pending) = BattlePart
    BY <1>0, <1>6 DEF UploadingOf, Uploading, BattlePart
  <2>2. KeepIn(assets', Uploading, BattlePart, OtherPart)
    BY <1>0, <1>1, <1>4, PartsApart
  <2> QED
    BY <1>0, <1>6, <2>1, <2>2 DEF OtherPart
<1> QED
  BY <1>0, <1>3, <1>4, <1>7, <1>8, <1>9, <1>10, <1>11, <1>12, Rebuild

(* A worker, at any time.                                                  *)
LEMMA WorkerKeeps ==
  ASSUME ProgramInv, Worker
  PROVE  ProgramInv'
<1>0. /\ ImagesOK(assets) /\ HandlesIn(assets, phase, split, waiting, battle)
      /\ BatchesIn(assets, PreloadsOf(split, battle)) /\ BattleIn(assets, battle) /\ PhasesOK
      /\ LoadedIn(assets, at, phase, waiting) /\ ShownOK
      /\ Stopped \/ KeepIn(assets, Uploading, BattlePart, OtherPart)
      /\ UNCHANGED <<at, faults, screens, transitions, phase, split, waiting, moving, battle>>
  BY DEF ProgramInv, HandlesOK, BatchesOK, Preloads, BattleOK, LoadedOK, KeepOK, Uploading, BattlePart, OtherPart,
         Worker, programVars
<1>1. PICK n \in Handles(assets) : ~IsReady(assets, n) /\ Decoded(assets, n, assets')
  <2>1. PICK n \in DOMAIN assets.images : Decode(n)
    BY DEF Worker
  <2>2. DOMAIN assets.images = Handles(assets)
    BY <1>0 DEF ImagesOK, Assets, Handles
  <2> QED
    BY <2>1, <2>2 DEF Decode, Decoded
<1>2. /\ ImagesOK(assets') /\ Later(assets, assets') /\ Handles(assets') = Handles(assets)
      /\ assets'.pending = assets.pending /\ assets'.cleanups = assets.cleanups /\ SameBatches(assets, assets')
      /\ assets'.entry = assets.entry /\ assets'.texture = assets.texture
      /\ \A up, bp, o : KeepIn(assets, up, bp, o) /\ up \subseteq Handles(assets) /\ bp \subseteq Handles(assets)
           => KeepIn(assets', up, bp, o)
  BY <1>0, <1>1, DecodeFacts
<1>3. /\ HandlesIn(assets', phase', split', waiting', battle')
      /\ BatchesIn(assets', PreloadsOf(split', battle')) /\ BattleIn(assets', battle')
  BY <1>0, <1>2, Onward
<1>4. PhasesOK'
  BY <1>0, <1>2, FramePhases
<1>5. ShownOK'
  BY <1>0, <1>2, ShownStays DEF ShownOK, AllIn, Cached
<1>6. LoadedIn(assets', at', phase', waiting')
  <2>1. at = "idle" => \A m \in ToSet(waiting) : assets'.entry[KeyOf(assets', m)] = m
    <3>1. at = "idle" => \A m \in ToSet(waiting) : assets.entry[KeyOf(assets, m)] = m
      BY <1>0 DEF LoadedIn
    <3>2. \A m \in ToSet(waiting) : KeyOf(assets', m) = KeyOf(assets, m)
      BY <1>0, <1>2, PartsApart, LaterFacts
    <3> QED
      BY <1>2, <3>1, <3>2
  <2>2. at \in {"selection", "route", "walk"} => ToSet(waiting) \subseteq ToSet(assets'.pending)
    BY <1>0, <1>2 DEF LoadedIn
  <2>3. \A k \in Keys : Cached(assets', k) => Cached(assets, k)
    BY <1>2 DEF Cached
  <2> QED
    BY <1>0, <1>2, <2>1, <2>2, <2>3, LoadedStays
<1>7. Stopped' \/ KeepIn(assets', UploadingOf(assets', split'), ToSet(battle'.preload.pending),
                         ToSet(waiting') \cup CleanupHandles(assets'))
  <2>1. UploadingOf(assets', split') = Uploading /\ ToSet(battle'.preload.pending) = BattlePart
        /\ CleanupHandles(assets') = CleanupHandles(assets)
    BY <1>0, <1>2 DEF UploadingOf, Uploading, BattlePart, CleanupHandles
  <2>2. Stopped \/ KeepIn(assets', Uploading, BattlePart, OtherPart)
    BY <1>0, <1>2, PartsApart
  <2>3. Stopped' <=> Stopped
    BY <1>0 DEF Stopped
  <2> QED
    BY <1>0, <2>1, <2>2, <2>3 DEF OtherPart
<1> QED
  BY <1>0, <1>2, <1>3, <1>4, <1>5, <1>6, <1>7, Rebuild

(* Steps of the loading screen that touch no image.                        *)
LEMMA QuietLoading ==
  ASSUME ProgramInv, at = "update", UNCHANGED <<assets, faults, moving, waiting, battle>>,
         split'.initial = split.initial, split'.animation = split.animation,
         split' \in [initial : {split'.initial}, animation : {split'.animation}, masks : Seq(Nat)],
         ToSet(split'.masks) \subseteq ToSet(split.masks), phase # "Running",
         PhasesOK', LoadedIn(assets, at', phase', waiting)
  PROVE  ProgramInv'
<1>1. /\ ImagesOK(assets)' /\ faults' \in Faults /\ HandlesOK' /\ BatchesOK'
      /\ KeepOK => KeepOK'
  BY SameAssetsKeep
<1>2. LoadedOK' /\ BattleOK'
  BY NextState DEF ProgramInv, BattleOK
<1>3. ShownOK'
  BY DEF ProgramInv, ShownOK, AllIn
<1>4. KeepOK
  BY DEF ProgramInv, Stopped
<1> QED
  BY <1>1, <1>2, <1>3, <1>4 DEF ProgramInv

(* Where the loading screen is when it advances.                           *)
LEMMA LoadingFacts ==
  ASSUME ProgramInv, UpdateStartup, drawn /\ phase \notin {"Running", "Failed"}
  PROVE  /\ AdvanceStage /\ at = "update" /\ screens = <<"Startup">> /\ transitions = << >> /\ ~moving
         /\ assets.cleanups = {} /\ battle = NoBattle /\ waiting = << >>
         /\ UNCHANGED <<faults, screens, moving, battle>>
         /\ PhasesOK /\ LoadedIn(assets, at, phase, waiting) /\ ImagesOK(assets)
         /\ HandlesIn(assets, phase, split, waiting, battle) /\ BatchesIn(assets, PreloadsOf(split, battle))
         /\ KeepIn(assets, Uploading, BattlePart, OtherPart) /\ Plans
BY PlansAreGiven
   DEF UpdateStartup, ProgramInv, PhasesOK, Waits, HandlesOK, BatchesOK, Preloads, LoadedOK, KeepOK, Uploading,
       BattlePart, OtherPart, Stopped

(* The phases that ask for nothing.                                        *)
LEMMA EarlyPhasesKeep ==
  ASSUME ProgramInv, UpdateStartup, drawn /\ phase \notin {"Running", "Failed"},
         JustAdvances \/ LoadGameDataAndPortraits
  PROVE  ProgramInv'
<1>1. /\ at = "update" /\ screens = <<"Startup">> /\ transitions = << >> /\ ~moving
      /\ assets.cleanups = {} /\ battle = NoBattle /\ waiting = << >>
      /\ UNCHANGED <<faults, screens, moving, battle>>
      /\ PhasesOK /\ LoadedIn(assets, at, phase, waiting)
      /\ HandlesIn(assets, phase, split, waiting, battle)
  BY LoadingFacts
<1>2. /\ phase \in {"Bootstrap", "ParseScenario", "LoadGameDataAndPortraits"}
      /\ phase' \in {"ParseScenario", "LoadGameDataAndPortraits", "PrepareAdventureMap", "Failed"}
      /\ phase' = "Failed" => faults.scenario
      /\ at' = "applyUpdate" /\ UNCHANGED <<assets, split, waiting, transitions>>
  BY DEF JustAdvances, NextPhase, LoadGameDataAndPortraits
<1>3. PhasesOK'
  BY <1>1, <1>2 DEF PhasesOK, BeforeMarks, Uploads, Waits
<1>4. LoadedIn(assets, at', phase', waiting)
  BY <1>1, <1>2 DEF LoadedIn, BeforeMarks
<1>5. split' \in [initial : {split'.initial}, animation : {split'.animation}, masks : Seq(Nat)]
  BY <1>1, <1>2 DEF HandlesIn
<1> QED
  BY <1>1, <1>2, <1>3, <1>4, <1>5, QuietLoading

(* The ground is asked for, and kept.                                      *)
LEMMA PrepareKeeps ==
  ASSUME ProgramInv, UpdateStartup, drawn /\ phase \notin {"Running", "Failed"}, PrepareAdventureMap
  PROVE  ProgramInv'
<1>1. /\ at = "update" /\ screens = <<"Startup">> /\ transitions = << >> /\ ~moving
      /\ assets.cleanups = {} /\ battle = NoBattle /\ waiting = << >>
      /\ UNCHANGED <<faults, screens, moving, battle>>
      /\ PhasesOK /\ LoadedIn(assets, at, phase, waiting) /\ ImagesOK(assets)
      /\ HandlesIn(assets, phase, split, waiting, battle) /\ BatchesIn(assets, PreloadsOf(split, battle))
      /\ KeepIn(assets, Uploading, BattlePart, OtherPart) /\ IsPlan(TerrainKeys)
  BY LoadingFacts DEF Plans
<1>2. /\ phase = "PrepareAdventureMap" /\ phase' = "BuildVisualResources" /\ at' = "applyUpdate"
      /\ assets' = RequestBatch(assets, TerrainKeys).a /\ UNCHANGED <<split, waiting, transitions>>
  BY DEF PrepareAdventureMap, SetAssets
<1> DEFINE hs == RequestBatch(assets, TerrainKeys).handles
<1>3. /\ ImagesOK(assets') /\ Asks(assets, assets') /\ Later(assets, assets')
      /\ AwaitedOf(assets', hs, TerrainKeys)
      /\ \A n \in Handles(assets') \ Handles(assets) : n \in ToSet(hs)
  BY <1>1, <1>2, BatchFacts
<1> HIDE DEF hs
<1>4. /\ assets'.pending = assets.pending /\ assets'.cleanups = assets.cleanups
      /\ assets'.texture = assets.texture /\ SameBatches(assets, assets')
  BY <1>3 DEF Asks, SameBatches
<1>5. /\ HandlesIn(assets', phase', split', waiting', battle')
      /\ BatchesIn(assets', PreloadsOf(split', battle')) /\ BattleIn(assets', battle')
  BY <1>1, <1>2, <1>3, <1>4, Onward
<1>6. PhasesOK'
  BY <1>1, <1>2, <1>4 DEF PhasesOK, BeforeMarks, Uploads, Waits
<1>7. LoadedIn(assets', at', phase', waiting')
  BY <1>1, <1>2, <1>4 DEF LoadedIn, BeforeMarks, Cached
<1>8. ShownOK'
  BY <1>1 DEF ShownOK
<1>9. KeepIn(assets', UploadingOf(assets', split'), ToSet(battle'.preload.pending),
             ToSet(waiting') \cup CleanupHandles(assets'))
  <2>1. /\ UploadingOf(assets', split') = Uploading /\ ToSet(battle'.preload.pending) = BattlePart
        /\ CleanupHandles(assets') = CleanupHandles(assets)
    BY <1>1, <1>2, <1>4 DEF UploadingOf, Uploading, BattlePart, CleanupHandles
  <2>2. \A n \in Handles(assets') \ Handles(assets) : Settled(assets', n)
    BY <1>3 DEF AwaitedOf, HandlesFor, Settled, KeptIn
  <2>3. KeepIn(assets', Uploading, BattlePart, OtherPart)
    BY <1>1, <1>3, <2>2, PartsApart, KeepAsked
  <2> QED
    BY <1>1, <1>2, <2>1, <2>3 DEF OtherPart
<1> QED
  BY <1>1, <1>3, <1>5, <1>6, <1>7, <1>8, <1>9, Rebuild

(* The marks of a selection are asked for.                                 *)
LEMMA BuildVisualsKeeps ==
  ASSUME ProgramInv, UpdateStartup, drawn /\ phase \notin {"Running", "Failed"}, BuildVisualResources
  PROVE  ProgramInv'
<1>1. /\ at = "update" /\ screens = <<"Startup">> /\ transitions = << >> /\ ~moving
      /\ assets.cleanups = {} /\ battle = NoBattle /\ waiting = << >>
      /\ UNCHANGED <<faults, screens, moving, battle>>
      /\ PhasesOK /\ LoadedIn(assets, at, phase, waiting) /\ ImagesOK(assets)
      /\ KeepIn(assets, Uploading, BattlePart, OtherPart) /\ IsPlan(SelectKeys)
  BY LoadingFacts DEF Plans
<1>2. /\ phase = "BuildVisualResources" /\ at' = "selection"
      /\ assets' = RequestTextures(assets, SelectKeys) /\ waiting' = RequestUncached(assets, SelectKeys).handles
      /\ UNCHANGED <<phase, split, transitions>>
  BY DEF BuildVisualResources, RequestAndWait, SetAssets
<1>3. /\ ImagesOK(assets') /\ Later(assets, assets') /\ assets'.texture = assets.texture
      /\ HandlesIn(assets', phase', split', waiting', battle')
      /\ BatchesIn(assets', PreloadsOf(split', battle')) /\ BattleIn(assets', battle')
      /\ KeepIn(assets', UploadingOf(assets', split'), ToSet(battle'.preload.pending),
                ToSet(waiting') \cup CleanupHandles(assets'))
      /\ AwaitedOf(assets', waiting', SelectKeys) /\ ToSet(waiting') \subseteq ToSet(assets'.pending)
      /\ assets'.cleanups = assets.cleanups
  <2>1. Later(assets, assets) /\ SameRest(assets, assets)
    BY DEF Later, SameRest
  <2>2. ToSet(SelectKeys) \subseteq PendingKeys(phase) /\ ToSet(waiting) = {}
    BY <1>1, <1>2, MembersOfNone DEF PendingKeys, Marks
  <2> QED
    BY <1>1, <1>2, <2>1, <2>2, OnwardAsking
<1>4. PhasesOK'
  BY <1>1, <1>2, <1>3 DEF PhasesOK, BeforeMarks, Uploads, Waits
<1>5. LoadedIn(assets', at', phase', waiting')
  BY <1>1, <1>2, <1>3 DEF LoadedIn, BeforeMarks, Cached
<1>6. ShownOK'
  BY <1>1 DEF ShownOK
<1> QED
  BY <1>1, <1>3, <1>4, <1>5, <1>6, Rebuild

(* Both preloads have begun and the masks are asked for.                   *)
Began(i, n, p, q) ==
  /\ ImagesOK(i) /\ ImagesOK(n) /\ Later(assets, i) /\ Later(i, n)
  /\ n.pending = assets.pending /\ n.cleanups = assets.cleanups /\ n.texture = assets.texture
  /\ PreloadOK(n, p, InitialKeys) /\ PreloadOK(n, q, AnimationKeys) /\ Exists(p) /\ Exists(q)
  /\ KeepIn(n, ToSet(assets.pending) \cup ToSet(p.pending) \cup ToSet(q.pending), {}, {})
  /\ \A k \in ToSet(InitialKeys) \cup ToSet(AnimationKeys) : n.entry[k] # 0 \/ Cached(assets, k)

(* Two preloads begin.                                                     *)
LEMMA BothBegin ==
  ASSUME ProgramInv, UpdateStartup, drawn /\ phase \notin {"Running", "Failed"}, SplitAssets
  PROVE  LET i == BeginPreload(assets, InitialKeys)
             n == BeginPreload(i, AnimationKeys)
             p == BegunPreload(assets, InitialKeys)
             q == BegunPreload(i, AnimationKeys)
         IN  /\ Began(i, n, p, q)
             /\ \A sp : sp.initial = p /\ sp.animation = q => BatchesIn(n, PreloadsOf(sp, battle))
<1> DEFINE i == BeginPreload(assets, InitialKeys)
           n == BeginPreload(i, AnimationKeys)
           p == BegunPreload(assets, InitialKeys)
           q == BegunPreload(i, AnimationKeys)
<1>0. /\ assets.cleanups = {} /\ battle = NoBattle /\ waiting = << >> /\ phase = "SplitAssets" /\ split = NoSplit
      /\ ImagesOK(assets) /\ BatchesIn(assets, PreloadsOf(split, battle))
      /\ KeepIn(assets, Uploading, BattlePart, OtherPart) /\ IsPlan(InitialKeys) /\ IsPlan(AnimationKeys)
  BY LoadingFacts DEF Plans, SplitAssets, PhasesOK, Uploads
<1>1. ToSet(assets.pending) \subseteq Handles(assets) /\ KeepIn(assets, ToSet(assets.pending), {}, {})
  <2>1. Uploading = ToSet(assets.pending) /\ BattlePart = {} /\ OtherPart = {}
    BY <1>0, MembersOfNone
       DEF Uploading, UploadingOf, BattlePart, OtherPart, NoSplit, NoBattle, NoPreload, CleanupHandles
  <2> QED
    BY <1>0, <2>1, PartsApart
<1>2. /\ PreloadBegun(assets, InitialKeys, i, p)
      /\ KeepIn(i, ToSet(assets.pending) \cup ToSet(p.pending), {}, {})
  BY <1>0, <1>1, BeginFacts
<1> HIDE DEF i, p
<1>3. /\ ImagesOK(i) /\ Later(assets, i) /\ i.texture = assets.texture /\ AwaitedOf(i, p.pending, InitialKeys)
      /\ \A m \in ToSet(p.pending) : i.entry[KeyOf(i, m)] = m
      /\ ToSet(p.pending) \subseteq Handles(i)
  BY <1>2 DEF PreloadBegun, TexturesAsked, AwaitedOf, HandlesFor
<1>4. ToSet(assets.pending) \subseteq Handles(i)
  BY <1>0, <1>1, <1>3, LaterFacts
<1>5. /\ PreloadBegun(i, AnimationKeys, n, q)
      /\ KeepIn(n, ToSet(assets.pending) \cup ToSet(p.pending) \cup ToSet(q.pending), {}, {})
  BY <1>0, <1>2, <1>3, <1>4, BeginFacts
<1> HIDE DEF n, q
<1>6. /\ ImagesOK(n) /\ Later(i, n) /\ n.texture = i.texture /\ AwaitedOf(n, q.pending, AnimationKeys)
      /\ \A m \in ToSet(q.pending) : n.entry[KeyOf(n, m)] = m
      /\ ToSet(q.pending) \subseteq Handles(n)
      /\ \A k \in Keys : i.entry[k] # 0 => n.entry[k] # 0
  BY <1>5 DEF PreloadBegun, TexturesAsked, AwaitedOf, HandlesFor
<1>7. \A k \in ToSet(InitialKeys) \cup ToSet(AnimationKeys) : n.entry[k] # 0 \/ Cached(assets, k)
  <2>1. ASSUME NEW k \in ToSet(InitialKeys), ~Cached(assets, k) PROVE n.entry[k] # 0
    <3>1. ~Cached(i, k)
      BY <1>3, <2>1 DEF Cached
    <3>2. PICK m \in ToSet(p.pending) : KeyOf(i, m) = k
      BY <1>3, <3>1 DEF AwaitedOf, Covered
    <3>3. i.entry[k] # 0
      BY <1>3, <3>2, ImageFacts DEF ImagesOK
    <3> QED
      BY <1>0, <1>6, <3>3, PlanFacts
  <2>2. ASSUME NEW k \in ToSet(AnimationKeys), ~Cached(assets, k) PROVE n.entry[k] # 0
    <3>1. ~Cached(n, k)
      BY <1>3, <1>6, <2>2 DEF Cached
    <3>2. PICK m \in ToSet(q.pending) : KeyOf(n, m) = k
      BY <1>6, <3>1 DEF AwaitedOf, Covered
    <3> QED
      BY <1>6, <3>2, ImageFacts DEF ImagesOK
  <2> QED
    BY <2>1, <2>2
<1>8. PreloadOK(n, p, InitialKeys) /\ PreloadOK(n, q, AnimationKeys) /\ Exists(p) /\ Exists(q)
  BY <1>0, <1>2, <1>3, <1>5, <1>6, PreloadStays DEF PreloadBegun
<1>9. Began(i, n, p, q)
  BY <1>2, <1>3, <1>5, <1>6, <1>7, <1>8 DEF Began, PreloadBegun
<1>10. ASSUME NEW sp, sp.initial = p, sp.animation = q PROVE BatchesIn(n, PreloadsOf(sp, battle))
  <2> DEFINE ps == PreloadsOf(split, battle)
             qs == PreloadsOf([split EXCEPT !.initial = p], battle)
             rs == PreloadsOf(sp, battle)
  <2>1. /\ ~Exists(ps["initial"]) /\ qs["initial"] = p /\ ~Exists(qs["animation"]) /\ rs["animation"] = q
        /\ \A o \in Parts \ {"initial"} : qs[o] = ps[o]
        /\ \A o \in Parts \ {"animation"} : rs[o] = qs[o]
    <3>1. /\ ps = [initial |-> NoPreload, animation |-> NoPreload, battle |-> NoPreload]
          /\ qs = [initial |-> p, animation |-> NoPreload, battle |-> NoPreload]
          /\ rs = [initial |-> p, animation |-> q, battle |-> NoPreload]
      BY <1>0, <1>10 DEF PreloadsOf, NoSplit, NoBattle
    <3>2. ~Exists(NoPreload)
      BY DEF NoPreload, Exists
    <3> HIDE DEF ps, qs, rs
    <3> QED
      BY <3>1, <3>2 DEF Parts
  <2> HIDE DEF ps, qs, rs
  <2>2. assets \in Assets /\ i \in Assets /\ BatchesIn(assets, ps)
    BY <1>0, <1>3 DEF ImagesOK, ps
  <2>3. BatchesIn(i, qs)
    BY <1>2, <2>1, <2>2, BatchBegins DEF PreloadBegun, Parts
  <2>4. BatchesIn(n, rs)
    BY <1>5, <2>1, <2>2, <2>3, BatchBegins DEF PreloadBegun, Parts
  <2> QED
    BY <2>4 DEF rs
<1> QED
  BY <1>9, <1>10 DEF i, n, p, q

(* They and the masks are asked for together.                              *)
LEMMA SplitKeeps ==
  ASSUME ProgramInv, UpdateStartup, drawn /\ phase \notin {"Running", "Failed"}, SplitAssets
  PROVE  ProgramInv'
<1>1. /\ at = "update" /\ screens = <<"Startup">> /\ transitions = << >> /\ ~moving
      /\ assets.cleanups = {} /\ battle = NoBattle /\ waiting = << >>
      /\ UNCHANGED <<faults, screens, moving, battle>>
      /\ PhasesOK /\ LoadedIn(assets, at, phase, waiting) /\ ImagesOK(assets)
      /\ HandlesIn(assets, phase, split, waiting, battle) /\ IsPlan(MaskKeys)
  BY LoadingFacts DEF Plans
<1> DEFINE i == BeginPreload(assets, InitialKeys)
           n == BeginPreload(i, AnimationKeys)
           p == BegunPreload(assets, InitialKeys)
           q == BegunPreload(i, AnimationKeys)
           hs == RequestBatch(n, MaskKeys).handles
<1>2. /\ phase = "SplitAssets" /\ phase' = "UploadInitialAssets" /\ at' = "applyUpdate"
      /\ UNCHANGED <<waiting, transitions>>
      /\ assets' = RequestBatch(n, MaskKeys).a /\ split' = [initial |-> p, animation |-> q, masks |-> hs]
  BY DEF SplitAssets, SetAssets
<1>3. /\ Began(i, n, p, q)
      /\ \A sp : sp.initial = p /\ sp.animation = q => BatchesIn(n, PreloadsOf(sp, battle))
  BY BothBegin
<1> HIDE DEF i, p, q
<1>4. /\ ImagesOK(i) /\ ImagesOK(n) /\ Later(assets, i) /\ Later(i, n)
      /\ n.pending = assets.pending /\ n.cleanups = assets.cleanups /\ n.texture = assets.texture
      /\ PreloadOK(n, p, InitialKeys) /\ PreloadOK(n, q, AnimationKeys) /\ Exists(p) /\ Exists(q)
      /\ KeepIn(n, ToSet(assets.pending) \cup ToSet(p.pending) \cup ToSet(q.pending), {}, {})
  BY <1>3 DEF Began
<1>5. /\ ImagesOK(assets') /\ Asks(n, assets') /\ Later(n, assets') /\ hs \in Seq(Nat)
      /\ AwaitedOf(assets', hs, MaskKeys)
      /\ \A m \in Handles(assets') \ Handles(n) : m \in ToSet(hs)
  BY <1>1, <1>2, <1>4, BatchFacts
<1> HIDE DEF n, hs
<1>6. Later(assets, assets')
  BY <1>4, <1>5, LaterTrans
<1>7. /\ assets'.pending = assets.pending /\ assets'.cleanups = assets.cleanups
      /\ assets'.texture = assets.texture /\ SameBatches(n, assets') /\ assets'.cleanups = n.cleanups
  BY <1>4, <1>5 DEF Asks, SameBatches
<1>8. Handles(assets') \subseteq Handles(n)
  <2>1. \A k \in ToSet(MaskKeys) : n.entry[k] # 0
    <3>1. \A k \in ToSet(MaskKeys) : k \in (ToSet(InitialKeys) \cup ToSet(AnimationKeys)) \ Marks
      BY KeysAssumption DEF Marks
    <3>2. \A k \in ToSet(MaskKeys) : ~Cached(assets, k)
      BY <1>1, <1>2, <3>1, PlanFacts DEF LoadedIn
    <3> QED
      BY <1>3, <3>1, <3>2 DEF Began
  <2>2. ASSUME NEW m \in Handles(assets') \ Handles(n) PROVE FALSE
    <3>1. KeyOf(assets', m) \in ToSet(MaskKeys)
      BY <1>5, <2>2 DEF AwaitedOf, HandlesFor
    <3>2. n.entry[KeyOf(assets', m)] = 0
      BY <1>5, <2>2 DEF Asks
    <3> QED
      BY <2>1, <3>1, <3>2
  <2> QED
    BY <2>2
<1>9. HandlesIn(assets', phase', split', waiting', battle')
  <2>1. HandlesFor(assets, PendingKeys(phase)) \subseteq HandlesFor(assets', PendingKeys(phase'))
    <3>1. PendingKeys(phase) = PendingKeys(phase')
      BY <1>2 DEF PendingKeys
    <3> QED
      BY <1>1, <1>6, <3>1, LaterFacts
  <2>2. PreloadOK(assets', p, InitialKeys) /\ PreloadOK(assets', q, AnimationKeys)
    BY <1>4, <1>5, PreloadStays, PlansAreGiven DEF Plans
  <2>3. battle'.preload = NoPreload
    BY <1>1 DEF NoBattle
  <2>4. CleanupHandles(assets') = {} /\ ToSet(waiting) = {} /\ waiting \in Seq(Nat)
    BY <1>1, <1>7, MembersOfNone DEF CleanupHandles
  <2>5. ToSet(hs) \subseteq HandlesFor(assets', ToSet(MaskKeys))
    BY <1>5 DEF AwaitedOf
  <2>6. ToSet(assets'.pending) \subseteq HandlesFor(assets', PendingKeys(phase'))
    BY <1>1, <1>7, <2>1 DEF HandlesIn
  <2>7. PreloadOK(assets', battle'.preload, BattleKeys)
    BY <2>3, NothingBegun
  <2>8. /\ split'.initial = p /\ split'.animation = q /\ split'.masks = hs
        /\ split' \in [initial : {split'.initial}, animation : {split'.animation}, masks : Seq(Nat)]
    BY <1>2, <1>5
  <2> QED
    BY <1>2, <2>2, <2>4, <2>5, <2>6, <2>7, <2>8 DEF HandlesIn
<1>10. BatchesIn(assets', PreloadsOf(split', battle'))
  <2>1. BatchesIn(n, PreloadsOf(split', battle))
    BY <1>2, <1>3
  <2> QED
    BY <1>1, <1>7, <2>1, BatchesSame DEF SameBatches
<1>11. BattleIn(assets', battle')
  BY <1>1 DEF BattleIn
<1>12. PhasesOK' /\ ShownOK'
  BY <1>1, <1>2, <1>4, <1>7 DEF PhasesOK, ShownOK, BeforeMarks, Uploads, Waits
<1>13. LoadedIn(assets', at', phase', waiting')
  BY <1>1, <1>2, <1>7 DEF LoadedIn, BeforeMarks, AllIn, Cached
<1>14. KeepIn(assets', UploadingOf(assets', split'), ToSet(battle'.preload.pending),
              ToSet(waiting') \cup CleanupHandles(assets'))
  <2> DEFINE up == ToSet(assets.pending) \cup ToSet(p.pending) \cup ToSet(q.pending)
  <2>1. UploadingOf(assets', split') = up /\ ToSet(battle'.preload.pending) = {}
        /\ ToSet(waiting') = {} /\ CleanupHandles(assets') = {}
    BY <1>1, <1>2, <1>7, MembersOfNone DEF UploadingOf, NoBattle, NoPreload, CleanupHandles
  <2>2. up \subseteq Handles(n)
    <3>1. ToSet(assets.pending) \subseteq Handles(n)
      BY <1>1, <1>4, PartsApart, LaterTrans, LaterFacts
    <3> QED
      BY <1>4, <3>1 DEF PreloadOK, HandlesFor
  <2>3. KeepIn(n, up, {}, {})
    BY <1>4
  <2> HIDE DEF up
  <2>4. KeepIn(assets', up, {}, {})
    BY <1>4, <1>5, <1>8, <2>2, <2>3, KeepAsked
  <2> QED
    BY <2>1, <2>4
<1> QED
  BY <1>1, <1>5, <1>9, <1>10, <1>11, <1>12, <1>13, <1>14, Rebuild

(* The plan of each preload.                                               *)
KeysFor(o) == IF o = "initial" THEN InitialKeys ELSE IF o = "animation" THEN AnimationKeys ELSE BattleKeys

(* A preload fits its plan.                                                *)
LEMMA PreloadsFit ==
  ASSUME ProgramInv, NEW o \in Parts
  PROVE  /\ IsPlan(KeysFor(o)) /\ PreloadOK(assets, Preloads[o], KeysFor(o))
         /\ ToSet(Preloads[o].pending) \subseteq Uploading \cup BattlePart
         /\ Exists(Preloads[o]) =>
              /\ Preloads[o].batch \in DOMAIN assets.batches
              /\ assets.batches[Preloads[o].batch] = IF Complete(Preloads[o]) THEN "sealed" ELSE "open"
<1>1. Preloads["initial"] = split.initial /\ Preloads["animation"] = split.animation
      /\ Preloads["battle"] = battle.preload
  BY DEF Preloads, PreloadsOf
<1>2. HandlesIn(assets, phase, split, waiting, battle) /\ BatchesIn(assets, Preloads)
  BY DEF ProgramInv, HandlesOK, BatchesOK
<1>3. IsPlan(KeysFor(o)) /\ PreloadOK(assets, Preloads[o], KeysFor(o))
  BY <1>1, <1>2, PlansAreGiven DEF Parts, KeysFor, Plans, HandlesIn
<1>4. ToSet(Preloads[o].pending) \subseteq Uploading \cup BattlePart
  BY <1>1 DEF Parts, Uploading, UploadingOf, BattlePart
<1>5. Exists(Preloads[o]) =>
              /\ Preloads[o].batch \in DOMAIN assets.batches
              /\ assets.batches[Preloads[o].batch] = IF Complete(Preloads[o]) THEN "sealed" ELSE "open"
  BY <1>2 DEF BatchesIn
<1> QED
  BY <1>3, <1>4, <1>5

(* What one call of advance leaves, whichever preload it is of.            *)
OneAdvance(o, x, q) ==
  /\ Advanced(assets, Preloads[o], KeysFor(o), x, q)
  /\ KeepIn(x, Uploading, BattlePart, OtherPart)
  /\ \A qs : qs[o] = q /\ (\A r \in Parts \ {o} : qs[r] = Preloads[r]) => BatchesIn(x, qs)
  /\ Complete(q) =>
       LET y == Finish(x, q)
       IN  /\ y \in Assets /\ SameImages(x, y) /\ y.pending = x.pending /\ y.cleanups = x.cleanups
           /\ \A qs : qs[o] = NoPreload /\ (\A r \in Parts \ {o} : qs[r] = Preloads[r]) => BatchesIn(y, qs)

(* One call of advance, of any of the three.                               *)
LEMMA AdvanceLeaves ==
  ASSUME ProgramInv, at = "update", NEW o \in Parts, Exists(Preloads[o]), NEW budget \in Nat
  PROVE  OneAdvance(o, Advance(assets, Preloads[o], budget).a, Advance(assets, Preloads[o], budget).p)
<1> DEFINE p == Preloads[o]
           keys == KeysFor(o)
           x == Advance(assets, p, budget).a
           q == Advance(assets, p, budget).p
<1>1. /\ IsPlan(keys) /\ PreloadOK(assets, p, keys) /\ ToSet(p.pending) \subseteq Uploading \cup BattlePart
      /\ p.batch \in DOMAIN assets.batches
      /\ assets.batches[p.batch] = IF Complete(p) THEN "sealed" ELSE "open"
  BY PreloadsFit
<1>2. /\ ImagesOK(assets) /\ BatchesIn(assets, Preloads) /\ KeepIn(assets, Uploading, BattlePart, OtherPart)
  BY DEF ProgramInv, BatchesOK, KeepOK, Uploading, BattlePart, OtherPart, Stopped
<1>3. Exists(p) /\ assets \in Assets
  BY <1>2 DEF ImagesOK
<1> HIDE DEF p, keys
<1>4. Advanced(assets, p, keys, x, q) /\ KeepIn(x, Uploading, BattlePart, OtherPart)
  BY <1>1, <1>2, <1>3, PartsApart, AdvanceFacts
<1> HIDE DEF x, q
<1>5. /\ x \in Assets /\ q.batch = p.batch /\ ToSet(q.pending) \subseteq ToSet(p.pending)
      /\ PreloadOK(x, q, keys) /\ Sealed(assets, p.batch, Complete(q), x) /\ x.cleanups = assets.cleanups
  BY <1>4 DEF Advanced, ImagesOK
<1>6. Complete(p) => Complete(q)
  <2>1. q.pending \in Seq(Nat) /\ p.pending \in Seq(Nat)
    BY <1>1, <1>5 DEF PreloadOK
  <2>2. (p.pending = << >> <=> ToSet(p.pending) = {}) /\ (q.pending = << >> <=> ToSet(q.pending) = {})
    BY <2>1, MembersOf
  <2> QED
    BY <1>5, <2>2 DEF Complete
<1>7. ASSUME NEW qs, qs[o] = q, \A r \in Parts \ {o} : qs[r] = Preloads[r] PROVE BatchesIn(x, qs)
  <2>1. /\ DOMAIN x.batches = DOMAIN assets.batches
        /\ \A b \in DOMAIN assets.batches \ {p.batch} : x.batches[b] = assets.batches[b]
        /\ x.batches[p.batch] = IF Complete(q) THEN "sealed" ELSE "open"
        /\ x.armed = assets.armed /\ x.dropped = assets.dropped
    BY <1>5 DEF Sealed
  <2> QED
    BY <1>2, <1>3, <1>5, <1>6, <1>7, <2>1, BatchGoesOn DEF p
<1>8. ASSUME Complete(q)
      PROVE  LET y == Finish(x, q)
             IN  /\ y \in Assets /\ SameImages(x, y) /\ y.pending = x.pending /\ y.cleanups = x.cleanups
                 /\ \A qs : qs[o] = NoPreload /\ (\A r \in Parts \ {o} : qs[r] = Preloads[r]) => BatchesIn(y, qs)
  <2> DEFINE y == Finish(x, q)
  <2>1. /\ y \in Assets /\ SameImages(x, y) /\ y.pending = x.pending /\ y.cleanups = x.cleanups
        /\ y.batches = x.batches /\ y.armed = x.armed \cup {q.batch} /\ y.dropped = x.dropped
    <3>1. q.batch \in Nat
      BY <1>5 DEF PreloadOK
    <3> QED
      BY <1>5, <3>1 DEF Finish, Arm, Assets, SameImages
  <2> HIDE DEF y
  <2>2. ASSUME NEW qs, qs[o] = NoPreload, \A r \in Parts \ {o} : qs[r] = Preloads[r] PROVE BatchesIn(y, qs)
    <3> DEFINE rs == [r \in Parts |-> IF r = o THEN q ELSE Preloads[r]]
    <3>1. rs[o] = q /\ \A r \in Parts \ {o} : rs[r] = Preloads[r]
      OBVIOUS
    <3> HIDE DEF rs
    <3>2. BatchesIn(x, rs)
      BY <1>7, <3>1
    <3>3. /\ Exists(rs[o]) /\ Complete(rs[o]) /\ qs[o].batch = 0
          /\ \A r \in Parts \ {o} : qs[r] = rs[r]
      BY <1>3, <1>5, <1>8, <2>2, <3>1 DEF Exists, NoPreload
    <3> QED
      BY <1>5, <2>1, <3>1, <3>2, <3>3, BatchIsArmed
  <2> QED
    BY <2>1, <2>2 DEF y
<1> QED
  BY <1>4, <1>7, <1>8 DEF OneAdvance, p, keys, x, q

(* One of the two preloads of the loading screen has become z.             *)
SplitNow(part, x, z, sp, ph) ==
  /\ HandlesIn(x, ph, sp, waiting, battle)
  /\ PreloadsOf(sp, battle)[part] = z
  /\ \A r \in Parts \ {part} : PreloadsOf(sp, battle)[r] = Preloads[r]
  /\ ToSet(z.pending) \subseteq ToSet(Preloads[part].pending) => UploadingOf(x, sp) \subseteq Uploading
  /\ Uploading \ ToSet(Preloads[part].pending) \subseteq UploadingOf(x, sp)
  /\ ToSet(z.pending) \subseteq UploadingOf(x, sp)
  /\ sp[part] = z /\ sp.masks = split.masks
  /\ IF part = "initial" THEN sp.initial = z /\ sp.animation = split.animation
                         ELSE sp.initial = split.initial /\ sp.animation = z

(* One of the two preloads of the loading screen, when it goes on.         *)
LEMMA SplitChanges ==
  ASSUME ProgramInv, NEW part \in {"initial", "animation"}, NEW x, ImagesOK(x), Later(assets, x),
         x.pending = assets.pending, x.cleanups = assets.cleanups,
         NEW z, PreloadOK(x, z, KeysFor(part)), NEW sp, sp = [split EXCEPT ![part] = z], NEW ph,
         PendingKeys(ph) = PendingKeys(phase)
  PROVE  SplitNow(part, x, z, sp, ph)
<1>1. ImagesOK(assets) /\ HandlesIn(assets, phase, split, waiting, battle)
  BY DEF ProgramInv, HandlesOK
<1>2. HandlesIn(x, phase, split, waiting, battle)
  BY <1>1, HandlesStay
<1>3. split \in [initial : {split.initial}, animation : {split.animation}, masks : Seq(Nat)]
  BY <1>1 DEF HandlesIn
<1>4. /\ sp[part] = z /\ sp.masks = split.masks
      /\ IF part = "initial" THEN sp.initial = z /\ sp.animation = split.animation
                             ELSE sp.initial = split.initial /\ sp.animation = z
      /\ sp \in [initial : {sp.initial}, animation : {sp.animation}, masks : Seq(Nat)]
  BY <1>3
<1>5. HandlesIn(x, ph, sp, waiting, battle)
  <2>1. PreloadOK(x, sp.initial, InitialKeys) /\ PreloadOK(x, sp.animation, AnimationKeys)
    BY <1>2, <1>4 DEF HandlesIn, KeysFor
  <2> QED
    BY <1>2, <1>4, <2>1 DEF HandlesIn
<1>6. /\ PreloadsOf(sp, battle)[part] = z
      /\ \A r \in Parts \ {part} : PreloadsOf(sp, battle)[r] = Preloads[r]
  BY <1>4 DEF PreloadsOf, Preloads, Parts
<1>7. Preloads["initial"] = split.initial /\ Preloads["animation"] = split.animation
  BY DEF Preloads, PreloadsOf
<1>8. /\ ToSet(z.pending) \subseteq ToSet(Preloads[part].pending) => UploadingOf(x, sp) \subseteq Uploading
      /\ Uploading \ ToSet(Preloads[part].pending) \subseteq UploadingOf(x, sp)
      /\ ToSet(z.pending) \subseteq UploadingOf(x, sp)
  <2>1. CASE part = "initial"
    BY <1>4, <1>7, <2>1 DEF UploadingOf, Uploading
  <2>2. CASE part = "animation"
    BY <1>4, <1>7, <2>2 DEF UploadingOf, Uploading
  <2> QED
    BY <2>1, <2>2
<1> QED
  BY <1>4, <1>5, <1>6, <1>8 DEF SplitNow

(* What is settled need not be uploaded.                                   *)
LEMMA KeepPart ==
  ASSUME NEW x, KeepIn(x, Uploading, BattlePart, OtherPart), NEW up \in SUBSET Uploading,
         \A n \in Uploading \ up : Settled(x, n)
  PROVE  KeepIn(x, up, BattlePart, OtherPart)
BY KeepLess

(* The preloads of the loading screen are uploaded.                        *)
LEMMA UploadSplitKeeps ==
  ASSUME ProgramInv, UpdateStartup, drawn /\ phase \notin {"Running", "Failed"},
         UploadInitialAssets \/ UploadAnimationAssets
  PROVE  ProgramInv'
<1>1. /\ at = "update" /\ screens = <<"Startup">> /\ transitions = << >> /\ ~moving
      /\ assets.cleanups = {} /\ battle = NoBattle /\ waiting = << >>
      /\ UNCHANGED <<faults, screens, moving, battle>>
      /\ PhasesOK /\ LoadedIn(assets, at, phase, waiting) /\ ImagesOK(assets)
      /\ HandlesIn(assets, phase, split, waiting, battle)
  BY LoadingFacts
<1>2. PICK part \in {"initial", "animation"}, next \in {"UploadAnimationAssets", "BuildInteractionMasks"} :
        /\ UploadSplit(part, next)
        /\ \/ part = "initial" /\ phase = "UploadInitialAssets" /\ next = "UploadAnimationAssets"
           \/ part = "animation" /\ phase = "UploadAnimationAssets" /\ next = "BuildInteractionMasks"
  BY DEF UploadInitialAssets, UploadAnimationAssets
<1>3. split[part] = Preloads[part] /\ part \in Parts /\ Exists(Preloads[part])
      /\ split.initial = Preloads["initial"] /\ split.animation = Preloads["animation"]
  BY <1>1, <1>2 DEF PhasesOK, Preloads, PreloadsOf, Parts
<1>4. PICK budget \in Nat :
        LET done == Advance(assets, split[part], budget)
        IN  IF ~Complete(done.p)
            THEN /\ SetAssets(done.a) /\ split' = [split EXCEPT ![part] = done.p]
                 /\ at' = "applyUpdate" /\ UNCHANGED phase
            ELSE IF done.p.failed
            THEN /\ SetAssets(done.a) /\ split' = [split EXCEPT ![part] = done.p]
                 /\ Crash /\ UNCHANGED phase
            ELSE /\ SetAssets(Finish(done.a, done.p)) /\ split' = [split EXCEPT ![part] = NoPreload]
                 /\ phase' = next /\ at' = "applyUpdate"
  BY <1>2 DEF UploadSplit, Budgets
<1> DEFINE x == Advance(assets, Preloads[part], budget).a
           q == Advance(assets, Preloads[part], budget).p
<1>5. OneAdvance(part, x, q)
  BY <1>1, <1>3, AdvanceLeaves
<1>6. \/ /\ ~Complete(q) \/ q.failed
         /\ assets' = x /\ split' = [split EXCEPT ![part] = q] /\ UNCHANGED phase
         /\ at' = IF Complete(q) THEN "crashed" ELSE "applyUpdate"
      \/ /\ Complete(q) /\ ~q.failed
         /\ assets' = Finish(x, q) /\ split' = [split EXCEPT ![part] = NoPreload]
         /\ phase' = next /\ at' = "applyUpdate"
  BY <1>3, <1>4 DEF SetAssets, Crash
<1>7. UNCHANGED <<waiting, transitions>>
  BY <1>2 DEF UploadSplit
<1> HIDE DEF x, q
<1>8. /\ ImagesOK(x) /\ Later(assets, x) /\ Handles(x) = Handles(assets) /\ PreloadOK(x, q, KeysFor(part))
      /\ q.batch = Preloads[part].batch /\ ToSet(q.pending) \subseteq ToSet(Preloads[part].pending)
      /\ \A n \in ToSet(Preloads[part].pending) \ ToSet(q.pending) : Settled(x, n)
      /\ x.pending = assets.pending /\ x.cleanups = assets.cleanups
      /\ KeepIn(x, Uploading, BattlePart, OtherPart)
  BY <1>5 DEF OneAdvance, Advanced
<1>9. ShownOK' /\ battle' = battle /\ BattleIn(assets', battle')
  BY <1>1 DEF ShownOK, BattleIn
<1>10. Plans
  BY PlansAreGiven
<1>11. CASE /\ ~Complete(q) \/ q.failed
            /\ assets' = x /\ split' = [split EXCEPT ![part] = q] /\ UNCHANGED phase
            /\ at' = IF Complete(q) THEN "crashed" ELSE "applyUpdate"
  <2>1. /\ HandlesIn(x, phase, split', waiting, battle)
        /\ PreloadsOf(split', battle)[part] = q
        /\ \A r \in Parts \ {part} : PreloadsOf(split', battle)[r] = Preloads[r]
        /\ UploadingOf(x, split') \subseteq Uploading
        /\ Uploading \ ToSet(Preloads[part].pending) \subseteq UploadingOf(x, split')
        /\ ToSet(q.pending) \subseteq UploadingOf(x, split')
        /\ IF part = "initial" THEN split'.initial = q /\ split'.animation = split.animation
                               ELSE split'.initial = split.initial /\ split'.animation = q
    <3>1. SplitNow(part, x, q, split', phase)
      BY <1>8, <1>11, SplitChanges
    <3> QED
      BY <1>8, <3>1 DEF SplitNow
  <2>2. BatchesIn(x, PreloadsOf(split', battle))
    BY <1>5, <2>1 DEF OneAdvance
  <2>3. Exists(q)
    BY <1>3, <1>8 DEF Exists
  <2>4. PhasesOK'
    BY <1>1, <1>2, <1>7, <1>8, <1>11, <2>1, <2>3 DEF PhasesOK, BeforeMarks, Uploads, Waits
  <2>5. LoadedIn(x, at', phase, waiting)
    <3>1. LoadedIn(x, at, phase, waiting)
      BY <1>1, <1>2, <1>8, LoadedStays DEF BeforeMarks
    <3>2. at' = "crashed" => Lacks(InitialKeys) \/ Lacks(AnimationKeys)
      BY <1>2, <1>8, <1>11 DEF PreloadOK, KeysFor
    <3> QED
      BY <1>1, <1>11, <3>1, <3>2 DEF LoadedIn
  <2>6. KeepIn(x, UploadingOf(x, split'), BattlePart, OtherPart)
    BY <1>8, <2>1, KeepPart
  <2>7. CleanupHandles(x) = CleanupHandles(assets)
    BY <1>8 DEF CleanupHandles
  <2> QED
    BY <1>1, <1>7, <1>8, <1>9, <1>11, <2>1, <2>2, <2>4, <2>5, <2>6, <2>7, Rebuild DEF BattlePart, OtherPart
<1>12. CASE /\ Complete(q) /\ ~q.failed
            /\ assets' = Finish(x, q) /\ split' = [split EXCEPT ![part] = NoPreload]
            /\ phase' = next /\ at' = "applyUpdate"
  <2>1. /\ assets' \in Assets /\ SameImages(x, assets') /\ assets'.pending = x.pending
        /\ assets'.cleanups = x.cleanups
        /\ \A qs : qs[part] = NoPreload /\ (\A r \in Parts \ {part} : qs[r] = Preloads[r]) => BatchesIn(assets', qs)
    BY <1>5, <1>12 DEF OneAdvance
  <2>2. /\ ImagesOK(assets') /\ Later(x, assets') /\ Handles(assets') = Handles(x)
        /\ \A up, bp, o : KeepIn(x, up, bp, o) => KeepIn(assets', up, bp, o)
    BY <1>8, <2>1, SameImagesFacts
  <2>3. Later(assets, assets')
    BY <1>8, <2>2, LaterTrans
  <2>4. PreloadOK(assets', NoPreload, KeysFor(part)) /\ ToSet(NoPreload.pending) = {}
    BY NothingBegun, MembersOfNone DEF NoPreload
  <2>5. PendingKeys(phase') = PendingKeys(phase)
    BY <1>2, <1>12 DEF PendingKeys
  <2>6. /\ HandlesIn(assets', phase', split', waiting, battle)
        /\ PreloadsOf(split', battle)[part] = NoPreload
        /\ \A r \in Parts \ {part} : PreloadsOf(split', battle)[r] = Preloads[r]
        /\ UploadingOf(assets', split') \subseteq Uploading
        /\ Uploading \ ToSet(Preloads[part].pending) \subseteq UploadingOf(assets', split')
        /\ split'.masks = split.masks
        /\ IF part = "initial" THEN split'.initial = NoPreload /\ split'.animation = split.animation
                               ELSE split'.initial = split.initial /\ split'.animation = NoPreload
    <3>1. assets'.pending = assets.pending /\ assets'.cleanups = assets.cleanups
      BY <1>8, <2>1
    <3>2. SplitNow(part, assets', NoPreload, split', phase')
      BY <1>12, <2>2, <2>3, <2>4, <2>5, <3>1, SplitChanges
    <3> QED
      BY <2>4, <3>2 DEF SplitNow
  <2>7. BatchesIn(assets', PreloadsOf(split', battle))
    BY <2>1, <2>6
  <2>8. ToSet(q.pending) = {}
    BY <1>12, MembersOfNone DEF Complete
  <2>9. PhasesOK'
    BY <1>1, <1>2, <1>7, <1>8, <1>12, <2>1, <2>6 DEF PhasesOK, BeforeMarks, Uploads, Waits, NoPreload, Exists
  <2>10. AllIn(assets', KeysFor(part))
    <3>1. Covered(x, KeysFor(part), {})
      BY <1>3, <1>8, <1>12, <2>8 DEF PreloadOK, Exists
    <3> QED
      BY <2>1, <3>1 DEF Covered, AllIn, SameImages, Cached
  <2>11. LoadedIn(assets', at', phase', waiting)
    <3>1. LoadedIn(assets', at, phase, waiting)
      BY <1>1, <1>2, <2>3, LoadedStays DEF BeforeMarks
    <3> QED
      BY <1>1, <1>2, <1>12, <2>10, <3>1 DEF LoadedIn, BeforeMarks, KeysFor
  <2>12. KeepIn(assets', UploadingOf(assets', split'), BattlePart, OtherPart)
    <3>1. \A n \in Uploading \ UploadingOf(assets', split') : Settled(assets', n)
      <4>1. \A n \in ToSet(Preloads[part].pending) : Settled(x, n)
        BY <1>8, <2>8
      <4>2. \A n \in ToSet(Preloads[part].pending) : Settled(assets', n)
        <5>1. ToSet(Preloads[part].pending) \subseteq Handles(assets)
          BY <1>3, PreloadsFit, PartsApart
        <5> QED
          BY <1>8, <2>2, <4>1, <5>1, LaterFacts
      <4> QED
        BY <2>6, <4>2
    <3> QED
      BY <1>8, <2>2, <2>6, <3>1, KeepPart
  <2>13. CleanupHandles(assets') = CleanupHandles(assets)
    BY <1>8, <2>1 DEF CleanupHandles
  <2> QED
    BY <1>1, <1>7, <1>9, <1>12, <2>2, <2>6, <2>7, <2>9, <2>11, <2>12, <2>13, Rebuild DEF BattlePart, OtherPart
<1> QED
  BY <1>6, <1>11, <1>12

(* A member of a sequence.                                                 *)
LEMMA MemberOfItself == ASSUME NEW s \in Seq(Nat), NEW i \in DOMAIN s PROVE s[i] \in ToSet(s)
<1>1. ToSet(s) = {s[j] : j \in 1 .. Len(s)}
  BY MembersOf
<1>2. DOMAIN s = 1 .. Len(s)
  OBVIOUS
<1> QED
  BY <1>1, <1>2

(* The masks are polled.                                                   *)
LEMMA MasksKeep ==
  ASSUME ProgramInv, UpdateStartup, drawn /\ phase \notin {"Running", "Failed"}, BuildInteractionMasks
  PROVE  ProgramInv'
<1>1. /\ at = "update" /\ screens = <<"Startup">> /\ transitions = << >> /\ ~moving
      /\ assets.cleanups = {} /\ battle = NoBattle /\ waiting = << >>
      /\ UNCHANGED <<faults, screens, moving, battle>>
      /\ PhasesOK /\ LoadedIn(assets, at, phase, waiting) /\ ImagesOK(assets)
      /\ HandlesIn(assets, phase, split, waiting, battle)
  BY LoadingFacts
<1>2. /\ phase = "BuildInteractionMasks" /\ UNCHANGED <<assets, waiting, transitions>>
      /\ \/ at' = "applyUpdate" /\ UNCHANGED <<phase, split>>
         \/ /\ AllReady(assets, split.masks) /\ \E m \in DOMAIN split.masks : ~HasImage(assets, split.masks[m])
            /\ at' = "crashed" /\ UNCHANGED <<phase, split>>
         \/ phase' = "Finalize" /\ at' = "applyUpdate" /\ split' = [split EXCEPT !.masks = << >>]
  BY DEF BuildInteractionMasks, Crash
<1>3. /\ split \in [initial : {split.initial}, animation : {split.animation}, masks : Seq(Nat)]
      /\ split.masks \in Seq(Nat) /\ ToSet(split.masks) \subseteq HandlesFor(assets, ToSet(MaskKeys))
      /\ split.initial = NoPreload /\ split.animation = NoPreload
  BY <1>1, <1>2 DEF HandlesIn, PhasesOK, PreloadOK
<1>4. CASE at' = "applyUpdate" /\ UNCHANGED <<phase, split>>
  <2>1. PhasesOK' /\ LoadedIn(assets, at', phase', waiting)
    BY <1>1, <1>2, <1>4 DEF PhasesOK, LoadedIn, BeforeMarks, Uploads, Waits
  <2> QED
    BY <1>1, <1>2, <1>3, <1>4, <2>1, QuietLoading
<1>5. CASE /\ AllReady(assets, split.masks) /\ \E m \in DOMAIN split.masks : ~HasImage(assets, split.masks[m])
           /\ at' = "crashed" /\ UNCHANGED <<phase, split>>
  <2>1. PICK m \in DOMAIN split.masks : ~HasImage(assets, split.masks[m])
    BY <1>5
  <2>2. split.masks[m] \in ToSet(split.masks)
    BY <1>3, <2>1, MemberOfItself
  <2>3. /\ split.masks[m] \in Handles(assets) /\ KeyOf(assets, split.masks[m]) \in ToSet(MaskKeys)
        /\ IsReady(assets, split.masks[m])
    BY <1>3, <1>5, <2>1, <2>2 DEF HandlesFor, AllReady
  <2>4. ~Good(KeyOf(assets, split.masks[m]))
    <3>1. assets.images[split.masks[m]].status = "Failed"
      BY <1>1, <2>1, <2>3, ImageFacts DEF HasImage, IsReady, ImagesOK
    <3> QED
      BY <1>1, <2>3, <3>1 DEF ImagesOK, Good
  <2>5. Lacks(InitialKeys) \/ Lacks(AnimationKeys)
    <3>1. KeyOf(assets, split.masks[m]) \in ToSet(InitialKeys) \cup ToSet(AnimationKeys)
      BY <2>3, KeysAssumption
    <3> QED
      BY <2>4, <3>1 DEF Lacks
  <2>6. PhasesOK' /\ LoadedIn(assets, at', phase', waiting)
    BY <1>1, <1>2, <1>5, <2>5 DEF PhasesOK, LoadedIn, BeforeMarks, Uploads, Waits
  <2> QED
    BY <1>1, <1>2, <1>3, <1>5, <2>6, QuietLoading
<1>6. CASE phase' = "Finalize" /\ at' = "applyUpdate" /\ split' = [split EXCEPT !.masks = << >>]
  <2>1. split' = NoSplit /\ ToSet(split'.masks) = {}
    BY <1>3, <1>6, MembersOfNone DEF NoSplit
  <2>2. /\ split'.initial = split.initial /\ split'.animation = split.animation
        /\ split' \in [initial : {split'.initial}, animation : {split'.animation}, masks : Seq(Nat)]
    BY <1>3, <2>1, MembersOfNone DEF NoSplit
  <2>3. PhasesOK' /\ LoadedIn(assets, at', phase', waiting)
    BY <1>1, <1>2, <1>6, <2>1 DEF PhasesOK, LoadedIn, BeforeMarks, Uploads, Waits
  <2> QED
    BY <1>1, <1>2, <1>6, <2>1, <2>2, <2>3, QuietLoading
<1> QED
  BY <1>2, <1>4, <1>5, <1>6

(* Loading is over.                                                        *)
LEMMA FinalizeKeeps ==
  ASSUME ProgramInv, UpdateStartup, drawn /\ phase \notin {"Running", "Failed"}, Finalize
  PROVE  ProgramInv'
<1>1. /\ at = "update" /\ screens = <<"Startup">> /\ transitions = << >> /\ ~moving
      /\ assets.cleanups = {} /\ battle = NoBattle /\ waiting = << >>
      /\ UNCHANGED <<faults, screens, moving, battle>>
      /\ PhasesOK /\ LoadedIn(assets, at, phase, waiting)
      /\ HandlesIn(assets, phase, split, waiting, battle)
  BY LoadingFacts
<1>2. /\ phase = "Finalize" /\ phase' = "Running" /\ at' = "applyUpdate" /\ split = NoSplit
      /\ UNCHANGED <<assets, split, waiting>>
  BY <1>1 DEF Finalize, PhasesOK, Uploads
<1>3. PhasesOK' /\ LoadedIn(assets, at', phase', waiting)
  BY <1>1, <1>2 DEF PhasesOK, LoadedIn, BeforeMarks, Uploads, Waits
<1>4. split' \in [initial : {split'.initial}, animation : {split'.animation}, masks : Seq(Nat)]
  BY <1>1, <1>2 DEF HandlesIn
<1> QED
  BY <1>1, <1>2, <1>3, <1>4, QuietLoading

(* A frame of the loading screen.                                          *)
LEMMA UpdateStartupKeeps ==
  ASSUME ProgramInv, OverlayInv', UpdateStartup
  PROVE  ProgramInv'
<1>1. CASE drawn /\ phase \notin {"Running", "Failed"}
  <2>1. AdvanceStage
    BY <1>1, LoadingFacts
  <2> QED
    BY <1>1, <2>1, EarlyPhasesKeep, PrepareKeeps, BuildVisualsKeeps, SplitKeeps, UploadSplitKeeps, MasksKeep,
       FinalizeKeeps DEF AdvanceStage
<1>2. CASE ~(drawn /\ phase \notin {"Running", "Failed"})
  BY <1>2, ScreenStep DEF UpdateStartup, Free
<1> QED
  BY <1>1, <1>2

(* What a frame of a battle leaves alone.                                  *)
BattleFrame ==
  /\ at = "update" /\ at' = "applyUpdate" /\ phase = "Running" /\ PhasesOK /\ waiting = << >>
  /\ UNCHANGED <<faults, screens, transitions, quit, phase, drawn, split, waiting, moving, begun>>
  /\ ImagesOK(assets) /\ HandlesIn(assets, phase, split, waiting, battle)
  /\ BatchesIn(assets, Preloads) /\ BattleIn(assets, battle)
  /\ KeepIn(assets, Uploading, BattlePart, OtherPart)

(* Such a frame.                                                           *)
LEMMA BattleFacts ==
  ASSUME ProgramInv, OverlayInv, UpdateBattle
  PROVE  BattleFrame
<1>1. phase = "Running"
  BY TopsOfScreens DEF ProgramInv, PhasesOK, UpdateBattle
<1> QED
  BY <1>1 DEF UpdateBattle, BattleFrame, ProgramInv, HandlesOK, BatchesOK, BattleOK, KeepOK, Uploading, BattlePart,
              OtherPart, Stopped, PhasesOK, Waits

(* The images have gone on, and the battle's preload with them.            *)
LEMMA BattleGoesOn ==
  ASSUME ProgramInv, OverlayInv', BattleFrame, ImagesOK(assets'), Later(assets, assets'),
         assets'.pending = assets.pending, assets'.cleanups = assets.cleanups,
         PreloadOK(assets', battle'.preload, BattleKeys), BatchesIn(assets', PreloadsOf(split, battle')),
         BattleIn(assets', battle'), KeepIn(assets', Uploading, ToSet(battle'.preload.pending), OtherPart)
  PROVE  ProgramInv'
<1>1. /\ at = "update" /\ at' = "applyUpdate" /\ phase = "Running" /\ PhasesOK /\ waiting = << >>
      /\ UNCHANGED <<faults, screens, transitions, quit, phase, drawn, split, waiting, moving, begun>>
      /\ ImagesOK(assets) /\ HandlesIn(assets, phase, split, waiting, battle)
  BY DEF BattleFrame
<1>2. HandlesIn(assets', phase', split', waiting', battle')
  <2>1. HandlesIn(assets', phase, split, waiting, battle)
    BY <1>1, HandlesStay
  <2> QED
    BY <1>1, <2>1 DEF HandlesIn
<1>3. LoadedIn(assets', at', phase', waiting') /\ ShownOK'
  BY <1>1, FreeStaysLoaded DEF Free
<1>4. PhasesOK'
  BY <1>1, RunningPhases DEF Free
<1>5. UploadingOf(assets', split') = Uploading /\ ToSet(waiting') \cup CleanupHandles(assets') = OtherPart
  BY <1>1 DEF UploadingOf, Uploading, OtherPart, CleanupHandles
<1> QED
  BY <1>1, <1>2, <1>3, <1>4, <1>5, Rebuild

(* What a loading battle is like in its stages.                            *)
LoadingBattle(b) ==
  \/ /\ b.stage \in DOMAIN NextStage \cup {"SubmitAssetPreparation"}
     /\ b \in [phase : {"Loading"}, stage : {b.stage}, played : BOOLEAN, preload : {NoPreload}]
  \/ /\ b \in [phase : {"Loading"}, stage : {"UploadAssets"}, played : BOOLEAN, preload : {b.preload}]
     /\ Exists(b.preload)
  \/ /\ b \in [phase : {"Loading"}, stage : {"FinalizeScenario"}, played : BOOLEAN, preload : {NoPreload}]
     /\ AllIn(assets, BattleKeys)

(* There is no other.                                                      *)
LEMMA LoadingIsOneOfThree ==
  ASSUME BattleIn(assets, battle), battle.phase = "Loading"
  PROVE  /\ LoadingBattle(battle)
         /\ DOMAIN NextStage = {"Bootstrap", "DiscoverBackgrounds", "BuildWarmupPlan"}
<1>0. DOMAIN NextStage = {"Bootstrap", "DiscoverBackgrounds", "BuildWarmupPlan"}
  BY DEF NextStage
<1> DEFINE s == DOMAIN NextStage \cup {"SubmitAssetPreparation"}
<1> HIDE DEF s
<1>1. battle # NoBattle
  BY DEF NoBattle
<1>2. battle # [NoBattle EXCEPT !.phase = "Ready", !.played = TRUE]
  BY DEF NoBattle
<1>3. ASSUME NEW p, battle \in [phase : {"Failed"}, stage : {"Failed"}, played : BOOLEAN, preload : {p}] PROVE FALSE
  BY <1>3
<1>4. \/ battle \in [phase : {"Loading"}, stage : s, played : BOOLEAN, preload : {NoPreload}]
      \/ /\ battle \in [phase : {"Loading"}, stage : {"UploadAssets"}, played : BOOLEAN, preload : {battle.preload}]
         /\ Exists(battle.preload)
      \/ /\ battle \in [phase : {"Loading"}, stage : {"FinalizeScenario"}, played : BOOLEAN, preload : {NoPreload}]
         /\ AllIn(assets, BattleKeys)
  BY <1>1, <1>2, <1>3 DEF BattleIn, s
<1>5. ASSUME battle \in [phase : {"Loading"}, stage : s, played : BOOLEAN, preload : {NoPreload}]
      PROVE  LoadingBattle(battle)
  <2>1. /\ battle.stage \in s
        /\ battle \in [phase : {"Loading"}, stage : {battle.stage}, played : BOOLEAN, preload : {NoPreload}]
    BY <1>5
  <2> QED
    BY <2>1 DEF LoadingBattle, s
<1> QED
  BY <1>0, <1>4, <1>5 DEF LoadingBattle

(* The plan is asked for.                                                  *)
LEMMA SubmitKeeps ==
  ASSUME ProgramInv, OverlayInv', BattleFrame, battle.phase = "Loading", SubmitAssetPreparation
  PROVE  ProgramInv'
<1> DEFINE p == BegunPreload(assets, BattleKeys)
<1>1. /\ ImagesOK(assets) /\ BatchesIn(assets, Preloads) /\ BattleIn(assets, battle) /\ IsPlan(BattleKeys)
      /\ KeepIn(assets, Uploading, BattlePart, OtherPart)
  BY PlansAreGiven DEF BattleFrame, Plans
<1>2. battle \in [phase : {"Loading"}, stage : {"SubmitAssetPreparation"}, played : BOOLEAN, preload : {NoPreload}]
  BY <1>1, LoadingIsOneOfThree DEF LoadingBattle, SubmitAssetPreparation
<1>3. assets' = BeginPreload(assets, BattleKeys)
      /\ battle' = [battle EXCEPT !.stage = "UploadAssets", !.preload = p]
  BY DEF SubmitAssetPreparation, SetAssets
<1>4. BattlePart = {}
  BY <1>2, MembersOfNone DEF BattlePart, NoPreload
<1>5. /\ PreloadBegun(assets, BattleKeys, assets', p)
      /\ KeepIn(assets', Uploading, ToSet(p.pending), OtherPart)
  BY <1>1, <1>3, <1>4, PartsApart, BeginFacts
<1> HIDE DEF p
<1>6. /\ battle' \in [phase : {"Loading"}, stage : {"UploadAssets"}, played : BOOLEAN, preload : {battle'.preload}]
      /\ battle'.preload = p
  BY <1>2, <1>3
<1>7. /\ ImagesOK(assets') /\ Later(assets, assets') /\ PreloadOK(assets', p, BattleKeys) /\ Exists(p)
      /\ assets'.pending = assets.pending /\ assets'.cleanups = assets.cleanups
  BY <1>5 DEF PreloadBegun, TexturesAsked
<1>8. BatchesIn(assets', PreloadsOf(split, battle'))
  <2> DEFINE qs == PreloadsOf(split, battle')
  <2>1. /\ ~Exists(Preloads["battle"]) /\ qs["battle"] = p /\ "battle" \in Parts
        /\ \A o \in Parts \ {"battle"} : qs[o] = Preloads[o]
    <3>1. Preloads["battle"] = NoPreload /\ ~Exists(NoPreload)
      BY <1>2 DEF Preloads, PreloadsOf, NoPreload, Exists
    <3>2. qs["battle"] = p /\ "battle" \in Parts /\ \A o \in Parts \ {"battle"} : qs[o] = Preloads[o]
      BY <1>6 DEF Preloads, PreloadsOf, Parts
    <3> QED
      BY <3>1, <3>2
  <2> HIDE DEF qs
  <2>2. assets \in Assets
    BY <1>1 DEF ImagesOK
  <2>3. BatchesIn(assets', qs)
    BY <1>1, <1>5, <2>1, <2>2, BatchBegins DEF PreloadBegun
  <2> QED
    BY <2>3 DEF qs
<1>9. BattleIn(assets', battle')
  BY <1>6, <1>7 DEF BattleIn
<1> QED
  BY <1>5, <1>6, <1>7, <1>8, <1>9, BattleGoesOn

(* It is uploaded.                                                         *)
LEMMA UploadBattleKeeps ==
  ASSUME ProgramInv, OverlayInv', BattleFrame, battle.phase = "Loading", UploadBattleAssets
  PROVE  ProgramInv'
<1>1. /\ ImagesOK(assets) /\ BatchesIn(assets, Preloads) /\ BattleIn(assets, battle) /\ at = "update"
  BY DEF BattleFrame
<1>2. /\ battle \in [phase : {"Loading"}, stage : {"UploadAssets"}, played : BOOLEAN, preload : {battle.preload}]
      /\ Exists(battle.preload)
  BY <1>1, LoadingIsOneOfThree DEF LoadingBattle, UploadBattleAssets
<1>3. Preloads["battle"] = battle.preload /\ "battle" \in Parts /\ KeysFor("battle") = BattleKeys
  BY DEF Preloads, PreloadsOf, Parts, KeysFor
<1>4. PICK budget \in Nat :
       LET done == Advance(assets, battle.preload, budget)
       IN  IF ~Complete(done.p)
           THEN SetAssets(done.a) /\ battle' = [battle EXCEPT !.preload = done.p]
           ELSE IF done.p.failed
           THEN SetAssets(done.a)
                /\ battle' = [battle EXCEPT !.preload = done.p,
                                            !.phase = "Failed", !.stage = "Failed"]
           ELSE SetAssets(Finish(done.a, done.p))
                /\ battle' = [battle EXCEPT !.preload = NoPreload, !.stage = "FinalizeScenario"]
  <2>1. Budgets(battle.preload.pending) \subseteq Nat
    BY DEF Budgets
  <2>2. \E budget \in Budgets(battle.preload.pending) :
       LET done == Advance(assets, battle.preload, budget)
       IN  IF ~Complete(done.p)
           THEN SetAssets(done.a) /\ battle' = [battle EXCEPT !.preload = done.p]
           ELSE IF done.p.failed
           THEN SetAssets(done.a)
                /\ battle' = [battle EXCEPT !.preload = done.p,
                                            !.phase = "Failed", !.stage = "Failed"]
           ELSE SetAssets(Finish(done.a, done.p))
                /\ battle' = [battle EXCEPT !.preload = NoPreload, !.stage = "FinalizeScenario"]
    BY Zenon DEF UploadBattleAssets
  <2> QED
    BY <2>1, <2>2, Zenon
<1> DEFINE x == Advance(assets, Preloads["battle"], budget).a
           q == Advance(assets, Preloads["battle"], budget).p
<1>5. OneAdvance("battle", x, q)
  BY <1>1, <1>2, <1>3, AdvanceLeaves
<1>6. \/ ~Complete(q) /\ assets' = x /\ battle' = [battle EXCEPT !.preload = q]
      \/ Complete(q) /\ q.failed /\ assets' = x
           /\ battle' = [battle EXCEPT !.preload = q, !.phase = "Failed", !.stage = "Failed"]
      \/ Complete(q) /\ ~q.failed /\ assets' = Finish(x, q)
           /\ battle' = [battle EXCEPT !.preload = NoPreload, !.stage = "FinalizeScenario"]
  BY <1>3, <1>4 DEF SetAssets
<1> HIDE DEF x, q
<1>7. /\ ImagesOK(x) /\ Later(assets, x) /\ Handles(x) = Handles(assets) /\ PreloadOK(x, q, BattleKeys)
      /\ q.batch = battle.preload.batch /\ ToSet(q.pending) \subseteq BattlePart
      /\ \A n \in BattlePart \ ToSet(q.pending) : Settled(x, n)
      /\ x.pending = assets.pending /\ x.cleanups = assets.cleanups
      /\ KeepIn(x, Uploading, BattlePart, OtherPart)
  BY <1>3, <1>5 DEF OneAdvance, Advanced, BattlePart
<1>8. KeepIn(x, Uploading, ToSet(q.pending), OtherPart)
  BY <1>7, KeepLess
<1>9. Exists(q)
  BY <1>2, <1>7 DEF Exists
<1>10. ASSUME NEW z, NEW b, b.preload = z
       PROVE  /\ PreloadsOf(split, b)["battle"] = z
              /\ \A r \in Parts \ {"battle"} : PreloadsOf(split, b)[r] = Preloads[r]
  BY <1>10 DEF PreloadsOf, Preloads, Parts
<1>11. ASSUME assets' = x, battle'.preload = q, BattleIn(x, battle') PROVE ProgramInv'
  <2>1. BatchesIn(x, PreloadsOf(split, battle'))
    BY <1>5, <1>10, <1>11 DEF OneAdvance
  <2> QED
    BY <1>7, <1>8, <1>11, <2>1, BattleGoesOn
<1>12. CASE ~Complete(q) /\ assets' = x /\ battle' = [battle EXCEPT !.preload = q]
  <2>1. battle' \in [phase : {"Loading"}, stage : {"UploadAssets"}, played : BOOLEAN, preload : {battle'.preload}]
        /\ battle'.preload = q
    BY <1>2, <1>12
  <2>2. BattleIn(x, battle')
    BY <1>9, <2>1 DEF BattleIn
  <2> QED
    BY <1>11, <1>12, <2>1, <2>2
<1>13. CASE Complete(q) /\ q.failed /\ assets' = x
              /\ battle' = [battle EXCEPT !.preload = q, !.phase = "Failed", !.stage = "Failed"]
  <2>1. battle' \in [phase : {"Failed"}, stage : {"Failed"}, played : BOOLEAN, preload : {battle'.preload}]
        /\ battle'.preload = q
    BY <1>2, <1>13
  <2>2. Lacks(BattleKeys)
    BY <1>7, <1>13 DEF PreloadOK
  <2>3. BattleIn(x, battle')
    BY <2>1, <2>2 DEF BattleIn
  <2> QED
    BY <1>11, <1>13, <2>1, <2>3
<1>14. CASE Complete(q) /\ ~q.failed /\ assets' = Finish(x, q)
              /\ battle' = [battle EXCEPT !.preload = NoPreload, !.stage = "FinalizeScenario"]
  <2>1. battle' \in [phase : {"Loading"}, stage : {"FinalizeScenario"}, played : BOOLEAN, preload : {NoPreload}]
        /\ battle'.preload = NoPreload
    BY <1>2, <1>14
  <2>2. /\ assets' \in Assets /\ SameImages(x, assets') /\ assets'.pending = x.pending
        /\ assets'.cleanups = x.cleanups
        /\ \A qs : qs["battle"] = NoPreload /\ (\A r \in Parts \ {"battle"} : qs[r] = Preloads[r])
             => BatchesIn(assets', qs)
    BY <1>5, <1>14 DEF OneAdvance
  <2>3. /\ ImagesOK(assets') /\ Later(x, assets')
        /\ \A up, bp, o : KeepIn(x, up, bp, o) => KeepIn(assets', up, bp, o)
    BY <1>7, <2>2, SameImagesFacts
  <2>4. Later(assets, assets')
    BY <1>7, <2>3, LaterTrans
  <2>5. BatchesIn(assets', PreloadsOf(split, battle'))
    BY <1>10, <2>1, <2>2
  <2>6. ToSet(q.pending) = {} /\ ToSet(battle'.preload.pending) = {}
    BY <1>14, <2>1, MembersOfNone DEF Complete, NoPreload
  <2>7. AllIn(assets', BattleKeys)
    <3>1. Covered(x, BattleKeys, {})
      BY <1>7, <1>9, <1>14, <2>6 DEF PreloadOK
    <3> QED
      BY <2>2, <3>1 DEF Covered, AllIn, SameImages, Cached
  <2>8. BattleIn(assets', battle')
    BY <2>1, <2>7 DEF BattleIn
  <2>9. PreloadOK(assets', battle'.preload, BattleKeys)
    BY <2>1, NothingBegun
  <2>10. KeepIn(assets', Uploading, ToSet(battle'.preload.pending), OtherPart)
    BY <1>8, <2>3, <2>6
  <2> QED
    BY <1>7, <2>2, <2>3, <2>4, <2>5, <2>8, <2>9, <2>10, BattleGoesOn
<1> QED
  BY <1>6, <1>12, <1>13, <1>14

(* A frame of a battle.                                                    *)
LEMMA UpdateBattleKeeps ==
  ASSUME ProgramInv, OverlayInv, OverlayInv', UpdateBattle
  PROVE  ProgramInv'
<1>1. BattleFrame
  BY BattleFacts
<1>2. /\ at \in Free \ {"over"} /\ at' \in Free /\ phase = "Running" /\ BattleIn(assets, battle)
      /\ UNCHANGED <<faults, phase, split, waiting, moving>>
  BY <1>1 DEF BattleFrame, Free
<1>3. CASE UNCHANGED <<assets, battle>>
  BY <1>2, <1>3, ScreenStep
<1>4. CASE battle.phase = "Loading" /\ PrepareBattle
  <2>1. battle \in [phase : {"Loading"}, stage : DOMAIN NextStage, played : BOOLEAN, preload : {NoPreload}]
    BY <1>2, <1>4, LoadingIsOneOfThree DEF LoadingBattle, PrepareBattle
  <2>2. /\ assets' = assets
        /\ \/ faults.battle /\ battle' = [battle EXCEPT !.phase = "Failed", !.stage = "Failed"]
           \/ battle' = [battle EXCEPT !.stage = NextStage[@]]
    BY <1>4 DEF PrepareBattle
  <2>3. battle'.preload = battle.preload /\ BattleIn(assets, battle')
    <3>1. CASE faults.battle /\ battle' = [battle EXCEPT !.phase = "Failed", !.stage = "Failed"]
      <4>1. battle' \in [phase : {"Failed"}, stage : {"Failed"}, played : BOOLEAN, preload : {battle'.preload}]
            /\ battle'.preload = battle.preload
        BY <2>1, <3>1
      <4> QED
        BY <3>1, <4>1 DEF BattleIn
    <3>2. CASE battle' = [battle EXCEPT !.stage = NextStage[@]]
      <4>1. NextStage[battle.stage] \in DOMAIN NextStage \cup {"SubmitAssetPreparation"}
        BY <2>1 DEF NextStage
      <4>2. battle' \in [phase : {"Loading"}, stage : DOMAIN NextStage \cup {"SubmitAssetPreparation"},
                         played : BOOLEAN, preload : {NoPreload}]
            /\ battle'.preload = battle.preload
        BY <2>1, <3>2, <4>1
      <4> QED
        BY <4>2 DEF BattleIn
    <3> QED
      BY <2>2, <3>1, <3>2
  <2> QED
    BY <1>2, <2>2, <2>3, QuietStep
<1>5. CASE battle.phase = "Loading" /\ FinalizeScenario
  <2>1. AllIn(assets, BattleKeys) /\ battle.preload = NoPreload
    BY <1>2, <1>5, LoadingIsOneOfThree DEF LoadingBattle, FinalizeScenario
  <2>2. BattleIn(assets, battle') /\ battle'.preload = NoPreload
    BY <1>5, <2>1 DEF FinalizeScenario, BattleIn, NoBattle
  <2> QED
    BY <1>2, <1>5, <2>1, <2>2, QuietStep DEF FinalizeScenario
<1> QED
  BY <1>1, <1>3, <1>4, <1>5, SubmitKeeps, UploadBattleKeeps DEF UpdateBattle

(* Nothing happens.                                                        *)
LEMMA StutterKeeps == ASSUME ProgramInv, UNCHANGED vars PROVE ProgramInv'
<1>1. /\ UNCHANGED <<assets, faults, at, screens, transitions, phase, split, waiting, moving, battle>>
  BY DEF vars, programVars
<1>2. /\ ImagesOK(assets) /\ HandlesIn(assets, phase, split, waiting, battle)
      /\ BatchesIn(assets, PreloadsOf(split, battle)) /\ BattleIn(assets, battle) /\ PhasesOK
      /\ LoadedIn(assets, at, phase, waiting) /\ ShownOK /\ (Stopped \/ KeepOK)
  BY DEF ProgramInv, HandlesOK, BatchesOK, BattleOK, LoadedOK, Preloads
<1>3. PhasesOK' /\ ShownOK'
  BY <1>1, <1>2 DEF PhasesOK, ShownOK, AllIn, Cached, TopScreen
<1>4. Stopped' \/ KeepIn(assets', UploadingOf(assets', split'), ToSet(battle'.preload.pending),
                         ToSet(waiting') \cup CleanupHandles(assets'))
  BY <1>1, <1>2 DEF Stopped, KeepOK
<1> QED
  BY <1>1, <1>2, <1>3, <1>4, Rebuild

(* Every step keeps the invariant.                                         *)
LEMMA NextKeepsProgram ==
  ASSUME ProgramInv, OverlayInv, [Next]_vars
  PROVE  ProgramInv' /\ OverlayInv'
<1>1. OverlayInv'
  BY NextKeepsOverlays
<1>2. CASE Player
  BY <1>1, <1>2, PlayerKeeps, StartMovementKeeps, RestartKeeps DEF Player
<1>3. CASE ApplyTransition \/ NothingToApply
  BY <1>1, <1>3, ApplyKeeps, NothingToApplyKeeps
<1>4. CASE SelectionIsThere \/ RouteIsThere \/ IdleIsThere \/ WalkIsThere
  BY <1>1, <1>4, SelectionIsThereKeeps, RouteIsThereKeeps, IdleIsThereKeeps, WalkIsThereKeeps
<1>5. CASE EndOfEvents \/ Pump \/ Render
  BY <1>1, <1>5, EndOfEventsKeeps, PumpKeeps, RenderKeeps
<1>6. CASE UpdateStartup \/ UpdateMap \/ UpdateBattle
  BY <1>1, <1>6, UpdateStartupKeeps, UpdateMapKeeps, UpdateBattleKeeps
<1>7. CASE Worker
  BY <1>1, <1>7, WorkerKeeps
<1>8. CASE UNCHANGED vars
  BY <1>1, <1>8, StutterKeeps
<1> QED
  BY <1>1, <1>2, <1>3, <1>4, <1>5, <1>6, <1>7, <1>8 DEF Next, MainThread

(* What it says of the screens.                                            *)
LEMMA ProgramInvLoads ==
  ASSUME ProgramInv, OverlayInv
  PROVE  ScreensAreLoaded
<1>1. /\ PhasesOK /\ LoadedIn(assets, at, phase, waiting) /\ ShownOK /\ BattleIn(assets, battle) /\ Plans
  BY PlansAreGiven DEF ProgramInv, LoadedOK, BattleOK
<1>2. /\ SelectKeys \in Seq(Keys) /\ RouteKeys \in Seq(Keys) /\ InitialKeys \in Seq(Keys)
      /\ AnimationKeys \in Seq(Keys) /\ IdleKeys \in Seq(Keys) /\ WalkKeys \in Seq(Keys)
  BY <1>1 DEF Plans, IsPlan
<1>3. ToSet(MovementKeys) = ToSet(IdleKeys) \cup ToSet(WalkKeys)
  BY <1>2, MembersOfBoth DEF MovementKeys
<1>4. /\ StartupKeys \in Seq(Keys)
      /\ ToSet(StartupKeys) = ToSet(SelectKeys) \cup ToSet(RouteKeys) \cup ToSet(InitialKeys) \cup ToSet(AnimationKeys)
  <2>1. SelectKeys \o RouteKeys \in Seq(Keys) /\ (SelectKeys \o RouteKeys) \o InitialKeys \in Seq(Keys)
        /\ ((SelectKeys \o RouteKeys) \o InitialKeys) \o AnimationKeys \in Seq(Keys)
    BY <1>2
  <2>2. ToSet(SelectKeys \o RouteKeys) = ToSet(SelectKeys) \cup ToSet(RouteKeys)
    BY <1>2, MembersOfBoth
  <2>3. ToSet((SelectKeys \o RouteKeys) \o InitialKeys) = ToSet(SelectKeys \o RouteKeys) \cup ToSet(InitialKeys)
    BY <1>2, <2>1, MembersOfBoth
  <2>4. ToSet(((SelectKeys \o RouteKeys) \o InitialKeys) \o AnimationKeys)
          = ToSet((SelectKeys \o RouteKeys) \o InitialKeys) \cup ToSet(AnimationKeys)
    BY <1>2, <2>1, MembersOfBoth
  <2> QED
    BY <2>1, <2>2, <2>3, <2>4, Zenon DEF StartupKeys
<1>5. ToSet(StartupKeys \o MovementKeys) = ToSet(StartupKeys) \cup ToSet(MovementKeys)
  <2>1. MovementKeys \in Seq(Keys)
    BY <1>2 DEF MovementKeys
  <2> QED
    BY <1>4, <2>1, MembersOfBoth
<1>6. ASSUME NEW keys, Lacks(keys) PROVE Faulty(keys)
  BY <1>6 DEF Lacks, Faulty, Good
<1>7. Head(screens) = "Adventure" => AllCached(StartupKeys) /\ split = NoSplit
  <2>1. SUFFICES ASSUME Head(screens) = "Adventure" PROVE AllCached(StartupKeys) /\ split = NoSplit
    OBVIOUS
  <2>2. phase = "Running"
    BY <1>1, <2>1 DEF PhasesOK
  <2>3. split = NoSplit
    BY <1>1, <2>2 DEF PhasesOK, Uploads
  <2>4. /\ AllIn(assets, SelectKeys) /\ AllIn(assets, RouteKeys)
        /\ AllIn(assets, InitialKeys) /\ AllIn(assets, AnimationKeys)
    BY <1>1, <2>2 DEF LoadedIn, BeforeMarks
  <2> QED
    BY <1>4, <2>3, <2>4 DEF AllCached, AllIn
<1>8. moving => AllCached(MovementKeys)
  BY <1>1, <1>3 DEF ShownOK, AllCached, AllIn
<1>9. (battle.phase = "Ready" => AllCached(BattleKeys)) /\ (battle.phase = "Failed" => faults.battle \/ Faulty(BattleKeys))
  <2>1. CASE battle = NoBattle
    BY <2>1 DEF NoBattle
  <2>2. ASSUME NEW S, NEW p, battle \in [phase : {"Loading"}, stage : S, played : BOOLEAN, preload : {p}]
        PROVE  battle.phase # "Ready" /\ battle.phase # "Failed"
    BY <2>2
  <2>3. CASE battle = [NoBattle EXCEPT !.phase = "Ready", !.played = TRUE] /\ AllIn(assets, BattleKeys)
    BY <2>3 DEF NoBattle, AllIn, AllCached
  <2>4. CASE /\ battle \in [phase : {"Failed"}, stage : {"Failed"}, played : BOOLEAN, preload : {battle.preload}]
             /\ faults.battle \/ Lacks(BattleKeys)
    BY <1>6, <2>4
  <2> QED
    BY <1>1, <2>1, <2>2, <2>3, <2>4 DEF BattleIn
<1>10. phase = "Failed" => faults.scenario
  BY <1>1 DEF PhasesOK
<1>11. at = "crashed" => Faulty(StartupKeys \o MovementKeys)
  <2>1. SUFFICES ASSUME at = "crashed" PROVE Faulty(StartupKeys \o MovementKeys)
    OBVIOUS
  <2>2. PICK keys \in {SelectKeys, RouteKeys, InitialKeys, AnimationKeys, IdleKeys, WalkKeys} : Lacks(keys)
    BY <1>1, <2>1 DEF LoadedIn
  <2>3. ToSet(keys) \subseteq ToSet(StartupKeys \o MovementKeys)
    BY <1>3, <1>4, <1>5
  <2> QED
    BY <1>6, <2>2, <2>3 DEF Faulty
<1> QED
  BY <1>7, <1>8, <1>9, <1>10, <1>11 DEF ScreensAreLoaded

(* What a preload waits for is owed.                                       *)
LEMMA PreloadsAreOwed == ASSUME NEW p \in PreloadsAlive, NEW n \in ToSet(p.pending) PROVE n \in Owed
<1>1. ToSet(p.pending) \in {ToSet(q.pending) : q \in PreloadsAlive}
  OBVIOUS
<1>2. n \in UNION {ToSet(q.pending) : q \in PreloadsAlive}
  BY <1>1
<1> QED
  BY <1>2 DEF Owed

(* What it says of the images.                                             *)
LEMMA ProgramInvReclaims ==
  ASSUME ProgramInv
  PROVE  ImagesAreReclaimed
<1>1. /\ ImagesOK(assets) /\ HandlesIn(assets, phase, split, waiting, battle)
      /\ BatchesIn(assets, Preloads) /\ (Stopped \/ KeepOK)
  BY DEF ProgramInv, HandlesOK, BatchesOK
<1>2. /\ Preloads["initial"] = split.initial /\ Preloads["animation"] = split.animation
      /\ Preloads["battle"] = battle.preload
  BY DEF Preloads, PreloadsOf
<1>3. \A p \in {split.initial, split.animation, battle.preload} :
        ToSet(p.pending) \subseteq Owed
  <2>1. SUFFICES ASSUME NEW p \in {split.initial, split.animation, battle.preload}
                 PROVE  ToSet(p.pending) \subseteq Owed
    OBVIOUS
  <2>2. ~Exists(p) => p = NoPreload
    BY <1>1 DEF HandlesIn, PreloadOK
  <2>3. CASE Exists(p)
    BY <2>3, PreloadsAreOwed DEF PreloadsAlive
  <2>4. CASE p = NoPreload
    BY <2>4, MembersOfNone DEF NoPreload
  <2> QED
    BY <2>2, <2>3, <2>4
<1>4. \A k \in Keys : assets.entry[k] # 0 =>
        assets.entry[k] \in Handles(assets) /\ KeyOf(assets, assets.entry[k]) = k
  BY <1>1 DEF ImagesOK, HandlesFor
<1>5. ASSUME NEW k \in Keys, Resident(assets, k), ~Stopped
      PROVE  assets.entry[k] \in Owed \/ Kept(k)
  <2> DEFINE n == assets.entry[k]
  <2>1. n \in Handles(assets) /\ KeyOf(assets, n) = k /\ assets.images[n].status = "Ready"
    BY <1>4, <1>5 DEF Resident, HasImage
  <2>2. \/ Settled(assets, n)
        \/ n \in UploadingOf(assets, split) \cup ToSet(battle.preload.pending)
                   \cup (ToSet(waiting) \cup CleanupHandles(assets))
    BY <1>1, <1>5, <2>1 DEF KeepOK, KeepIn
  <2>3. ASSUME Settled(assets, n) PROVE Kept(k)
    BY <2>1, <2>3 DEF Settled, KeptIn, Kept
  <2>4. UploadingOf(assets, split) \cup ToSet(battle.preload.pending)
          \cup (ToSet(waiting) \cup CleanupHandles(assets)) \subseteq Owed
    BY <1>3 DEF UploadingOf, CleanupHandles, Owed
  <2> QED
    BY <2>2, <2>3, <2>4
<1>6. assets.dropped = {}
  BY <1>1 DEF BatchesIn
<1>7. \A o \in Parts : Preloads[o] \in {split.initial, split.animation, battle.preload}
  BY <1>2 DEF Parts
<1>8. \A b \in DOMAIN assets.batches : b # 0
  <2>1. assets.batches \in Seq({"open", "sealed", "active"})
    BY <1>1 DEF ImagesOK, Assets
  <2> QED
    BY <2>1
<1>9. \A b \in DOMAIN assets.batches, o \in Parts : Preloads[o].batch = b => Preloads[o] \in PreloadsAlive
  BY <1>7, <1>8 DEF PreloadsAlive, Exists
<1>10. ASSUME NEW b \in DOMAIN assets.batches, assets.batches[b] = "open"
       PROVE  \E owner \in PreloadsAlive \cup assets.cleanups : owner.batch = b
  BY <1>1, <1>9, <1>10 DEF BatchesIn
<1>11. ASSUME NEW b \in DOMAIN assets.batches, assets.batches[b] = "sealed"
       PROVE  b \in assets.armed \/ \E p \in PreloadsAlive : p.batch = b /\ Complete(p)
  <2>1. b \in assets.armed \/ \E o \in Parts : Preloads[o].batch = b
    BY <1>1, <1>11 DEF BatchesIn
  <2>2. ASSUME NEW o \in Parts, Preloads[o].batch = b
        PROVE  Complete(Preloads[o])
    <3>1. Exists(Preloads[o])
      BY <1>8, <2>2 DEF Exists
    <3>2. assets.batches[b] = IF Complete(Preloads[o]) THEN "sealed" ELSE "open"
      BY <1>1, <2>2, <3>1 DEF BatchesIn
    <3> QED
      BY <1>11, <3>2
  <2> QED
    BY <1>9, <2>1, <2>2
<1> QED
  BY <1>4, <1>5, <1>6, <1>10, <1>11 DEF ImagesAreReclaimed

(* For every set of keys, whatever files are faulty, in whatever order     *)
(* images are decoded and however many are uploaded in a frame: no screen  *)
(* is shown without its images, and the program stops only for a file it   *)
(* needs (adventure_startup_screen.cpp, battle_screen.cpp).                *)
THEOREM ScreensStayLoaded == Spec => []ScreensAreLoaded
<1>1. Init => ProgramInv /\ OverlayInv
  BY StartIsRight DEF Init, OverlayInv, ScreensStand, TransitionFits, BattleHasScreen, TopScreen
<1>2. ProgramInv /\ OverlayInv /\ [Next]_vars => ProgramInv' /\ OverlayInv'
  BY NextKeepsProgram
<1>3. ProgramInv /\ OverlayInv => ScreensAreLoaded
  BY ProgramInvLoads
<1> QED
  BY <1>1, <1>2, <1>3, PTL DEF Spec

(* An image in memory always has somebody who will upload or release it,   *)
(* or is one of the three kinds that stay, also when battles are closed or *)
(* restarted while they load; and every batch is sealed and activated by   *)
(* its owner (render_asset_runtime.cpp, cpu_staging_reclaimer.cpp).        *)
THEOREM ImagesStayReclaimed == Spec => []ImagesAreReclaimed
<1>1. Init => ProgramInv /\ OverlayInv
  BY StartIsRight DEF Init, OverlayInv, ScreensStand, TransitionFits, BattleHasScreen, TopScreen
<1>2. ProgramInv /\ OverlayInv /\ [Next]_vars => ProgramInv' /\ OverlayInv'
  BY NextKeepsProgram
<1>3. ProgramInv /\ OverlayInv => ImagesAreReclaimed
  BY ProgramInvReclaims
<1> QED
  BY <1>1, <1>2, <1>3, PTL DEF Spec
=============================================================================
