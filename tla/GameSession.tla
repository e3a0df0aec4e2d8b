---------------------------- MODULE GameSession -----------------------------
(***************************************************************************)
(* d2game::GameSession: the commands that select a stack, plan its route,  *)
(* confirm it and advance it one cell at a time, and the two debug         *)
(* commands that change its movement points.  One action per command;      *)
(* reply holds the event that tells the caller how the command went.       *)
(*                                                                         *)
(* The session owns the world and no command adds, removes or hides a      *)
(* stack or changes its leader, so those are constants here and the        *)
(* answers "StackNotFound" after a selection cannot be represented.  Left  *)
(* out: the facing a step sets, the text of Inspect, and the commands that *)
(* change nothing (Quit, NoOp, AdvanceFrame, Inspect): they stutter.       *)
(***************************************************************************)
EXTENDS AdventureRules

CONSTANTS
  Terrain,             (* [ground, road, blocking] of the scenario          *)
  Whereabouts,         (* stack -> "map", "settlement" or "lost"            *)
  Leader,              (* stack -> its profile, "NoLeader" or "NoProfile"   *)
  Worlds,              (* initial stacks: functions to [position, move]     *)
  UnknownStack,        (* an identity no stack has                          *)
  FreeMovementPoints   (* kAdventureDebugFreeMovementPoints, 1024 * 1024    *)

ASSUME SessionAssumption ==
  /\ FreeMovementPoints \in Nat
  /\ UnknownStack \notin Stack
  /\ Whereabouts \in [Stack -> {"map", "settlement", "lost"}]
  /\ Leader \in [Stack -> Profile \cup {"NoLeader", "NoProfile"}]

(* A world is loaded whole: every cell has a ground, every stack a place,  *)
(* though perhaps off the map, and points, though perhaps fewer than none. *)
ASSUME WorldAssumption ==
  /\ Terrain.ground \in [Cells -> Ground]
  /\ Worlds \subseteq [Stack -> [position : Int \X Int, move : Int]]
  /\ Nobody \notin Stack

VARIABLES
  stacks,      (* world_.stacks: the position and move points of each stack *)
  baseline,    (* initial_stack_movement_points_                            *)
  mode, selected, planned, execution,   (* adventure_movement_state_        *)
  reply        (* the event of the last command                             *)

movementVars == <<mode, selected, planned, execution>>
sessionVars == <<stacks, baseline, mode, selected, planned, execution, reply>>

None == [stack |-> UnknownStack]    \* an empty optional
NoStack == UnknownStack
Mode == {"Idle", "StackSelected", "RoutePlanned", "Moving"}
Positive(n) == IF n < 0 THEN 0 ELSE n

OnMap == {s \in Stack : Whereabouts[s] = "map"}

(***************************************************************************)
(* AdventureNavigationMapBuilder over the current world.                   *)
(***************************************************************************)
Navigable ==
  /\ Terrain.blocking \subseteq Cells
  /\ \A s \in OnMap :
       /\ stacks[s].position \in Cells \ Terrain.blocking
       /\ \A t \in OnMap \ {s} : stacks[s].position # stacks[t].position

NavigationMap ==
  [ground |-> Terrain.ground, road |-> Terrain.road, blocking |-> Terrain.blocking,
   occupant |-> [c \in Cells |-> IF \E s \in OnMap : stacks[s].position = c
                                 THEN CHOOSE s \in OnMap : stacks[s].position = c
                                 ELSE Nobody]]

RouteTo(s, destination) ==
  FindPath(NavigationMap, Leader[s], s, stacks[s].position, destination)

(* The index of the first step the points do not reach, 0 when they reach  *)
(* them all; the code counts from 0 and has an empty optional.             *)
FirstUnaffordable(route, points) ==
  LET beyond == {i \in DOMAIN route.steps : route.steps[i].cumulative > points}
  IN IF beyond = {} THEN 0 ELSE Min(beyond)

PlannedMovement(s, profile, route) ==
  LET available == Positive(stacks[s].move)
  IN [stack |-> s, profile |-> profile, route |-> route, available |-> available,
      unaffordable |-> FirstUnaffordable(route, available)]

(* Mutant: the first unaffordable step counted in.                         *)
AffordableStepsAndOne(plan) ==
  IF plan.unaffordable = 0 THEN Len(plan.route.steps) ELSE plan.unaffordable

AffordableSteps(plan) ==
  IF plan.unaffordable = 0 THEN Len(plan.route.steps) ELSE plan.unaffordable - 1

-----------------------------------------------------------------------------
SessionInit ==
  /\ stacks \in Worlds
  /\ baseline = [s \in Stack |-> Positive(stacks[s].move)]
  /\ mode = "Idle" /\ selected = NoStack /\ planned = None /\ execution = None
  /\ reply = [event |-> "None", reason |-> "None"]

Reply(event) == reply' = [event |-> event, reason |-> "None"]
Reject(reason) == reply' = [event |-> "Rejected", reason |-> reason]

Become(newMode, newSelected, newPlanned, newExecution) ==
  /\ mode' = newMode /\ selected' = newSelected
  /\ planned' = newPlanned /\ execution' = newExecution
ResetIdle == Become("Idle", NoStack, None, None)
ResetSelected == Become("StackSelected", selected, None, None)
DropPlan == Become("StackSelected", selected, None, execution)

(* Every command but AdvanceStep is locked out while a stack moves.        *)
RejectBusy ==
  /\ mode = "Moving"
  /\ Reject("Busy")
  /\ UNCHANGED <<stacks, baseline, movementVars>>

Select(s) ==
  /\ mode # "Moving"
  /\ IF s \notin Stack \/ (s \in Stack /\ Whereabouts[s] = "lost")
     THEN /\ Reject(IF s \in Stack THEN "StackNotVisible" ELSE "StackNotFound")
          /\ UNCHANGED movementVars
     ELSE Become("StackSelected", s, None, None) /\ Reply("StackSelected")
  /\ UNCHANGED <<stacks, baseline>>

ClearSelection ==
  /\ mode # "Moving"
  /\ ResetIdle /\ Reply("SelectionCleared")
  /\ UNCHANGED <<stacks, baseline>>

(* The first reason a selected stack cannot have a route to a cell.        *)
RouteRefusal(s, destination) ==
  IF Leader[s] = "NoLeader" THEN "LeaderInstanceMissing"
  ELSE IF Leader[s] = "NoProfile" THEN "MovementProfileUnavailable"
  ELSE IF ~Navigable THEN "NavigationMapInvalid"
  ELSE IF RouteTo(s, destination).status \notin {"Found", "AlreadyAtDestination"}
       THEN "PathUnavailable" ELSE "None"

(* Whatever comes of it, a new plan starts by dropping the old one.        *)
Plan(destination) ==
  LET refusal == IF selected = NoStack THEN "NoSelectedStack"
                 ELSE IF selected \notin OnMap THEN "StackNotVisible"
                 ELSE RouteRefusal(selected, destination)
  IN /\ mode # "Moving"
     /\ IF refusal # "None"
        THEN /\ Become(IF selected = NoStack THEN "Idle" ELSE "StackSelected",
                       selected, None, execution)
             /\ Reject(refusal)
        ELSE /\ Become("RoutePlanned", selected,
                       PlannedMovement(selected, Leader[selected],
                                       RouteTo(selected, destination).route), execution)
             /\ Reply("RoutePlanned")
     /\ UNCHANGED <<stacks, baseline>>

(***************************************************************************)
(* Confirm trusts nothing of the plan: it searches the route again and     *)
(* refuses, or plans again, when the world is not what it was.             *)
(***************************************************************************)
ConfirmRefusal ==
  IF planned.stack # selected THEN "SelectedStackChanged"
  ELSE IF planned.stack \notin OnMap THEN "StackNotVisible"
  ELSE IF stacks[planned.stack].position # planned.route.start THEN "StackPositionChanged"
  ELSE IF Leader[planned.stack] \in Profile /\ Leader[planned.stack] # planned.profile
       THEN "MovementProfileChanged"
  ELSE RouteRefusal(planned.stack, planned.route.destination)

Execution(plan) ==
  [stack |-> plan.stack, profile |-> plan.profile,
   route |-> IF plan.unaffordable = 0 THEN plan.route
             ELSE RoutePrefix(plan.route, AffordableSteps(plan)),
   requested |-> plan.route.destination, limited |-> plan.unaffordable # 0,
   next |-> 1, spent |-> 0]

Confirmed(refreshed) ==
  IF refreshed.route # planned.route
  THEN Become("RoutePlanned", selected, refreshed, execution) /\ Reject("RouteChanged")
  ELSE IF refreshed.route.steps = << >>
  THEN ResetSelected /\ Reply("MovementNotRequired")
  ELSE IF AffordableSteps(refreshed) = 0
  THEN Become(mode, selected, refreshed, execution) /\ Reject("InsufficientMovementPoints")
  ELSE Become("Moving", selected, None, Execution(refreshed)) /\ Reply("MovementStarted")

Confirm ==
  /\ mode # "Moving"
  /\ IF selected = NoStack \/ planned = None
     THEN /\ Reject(IF selected = NoStack THEN "NoSelectedStack" ELSE "NoPlannedRoute")
          /\ UNCHANGED movementVars
     ELSE IF ConfirmRefusal # "None"
     THEN /\ Reject(ConfirmRefusal)
          /\ IF ConfirmRefusal = "StackNotVisible" THEN ResetIdle ELSE DropPlan
     ELSE Confirmed(PlannedMovement(planned.stack, Leader[planned.stack],
                      RouteTo(planned.stack, planned.route.destination).route))
  /\ UNCHANGED <<stacks, baseline>>

(***************************************************************************)
(* One step of the route: every fact the route rests on is looked up again *)
(* in the world before position, points and progress change together.      *)
(***************************************************************************)
StepIndexOK == execution.next \in DOMAIN execution.route.steps /\ selected = execution.stack
NextStep == execution.route.steps[execution.next]
StepOrigin == PreviousCell(execution.route.start, execution.route.steps, execution.next)
StepCost == EnterCost(NavigationMap, execution.profile, execution.stack, NextStep.cell)

StepRefusal ==
  IF ~StepIndexOK THEN "InvalidRouteState"
  ELSE IF execution.stack \notin OnMap THEN "StackNotVisible"
  ELSE IF stacks[execution.stack].position # StepOrigin THEN "PositionMismatch"
  ELSE IF ~Adjacent(StepOrigin, NextStep.cell) THEN "InvalidRouteState"
  ELSE IF ~Navigable THEN "NavigationMapInvalid"
  ELSE IF NextStep.cell \notin Cells \/ StepCost = Impassable THEN "StepBlocked"
  ELSE IF StepCost # NextStep.cost THEN "StepCostChanged"
  ELSE IF stacks[execution.stack].move < NextStep.cost THEN "InsufficientMovementPoints"
  ELSE "None"

Interrupt(reason) ==
  /\ reply' = [event |-> "Interrupted", reason |-> reason]
  /\ IF execution.stack \in OnMap THEN Become("StackSelected", execution.stack, None, None)
     ELSE ResetIdle

CommittedStack ==
  [position |-> NextStep.cell, move |-> stacks[execution.stack].move - NextStep.cost]
CommittedExecution ==
  [execution EXCEPT !.next = @ + 1, !.spent = @ + NextStep.cost]

CommitStep ==
  LET done == CommittedExecution.next > Len(execution.route.steps)
      arrived == /\ NextStep.cell = execution.route.destination
                 /\ CommittedExecution.spent = execution.route.total
  IN /\ stacks' = [stacks EXCEPT ![execution.stack] = CommittedStack]
     /\ IF ~done
        THEN Become(mode, selected, planned, CommittedExecution) /\ Reply("StepCommitted")
        ELSE IF arrived THEN ResetSelected /\ Reply("MovementCompleted")
        ELSE Interrupt("InvalidRouteState")

AdvanceStep ==
  /\ IF mode # "Moving" \/ execution = None
     THEN Reject("NoActiveMovement") /\ UNCHANGED <<stacks, movementVars>>
     ELSE IF StepRefusal # "None"
     THEN Interrupt(StepRefusal) /\ UNCHANGED stacks
     ELSE CommitStep
  /\ UNCHANGED baseline

(***************************************************************************)
(* The debug commands; a standing plan is re-priced, not searched again.   *)
(***************************************************************************)
RefreshedPlan(move) ==
  IF mode = "RoutePlanned"
  THEN [planned EXCEPT !.available = Positive(move),
                       !.unaffordable = FirstUnaffordable(planned.route, Positive(move))]
  ELSE planned

ChangeSelectedMovementPoints(points) ==
  /\ mode # "Moving"
  /\ IF selected = NoStack
     THEN Reject("NoSelectedStack") /\ UNCHANGED <<stacks, movementVars>>
     ELSE IF selected \notin OnMap
     THEN Reject("StackNotVisible") /\ ResetIdle /\ UNCHANGED stacks
     ELSE /\ stacks' = [stacks EXCEPT ![selected].move = points[selected]]
          /\ Become(mode, selected, RefreshedPlan(points[selected]), execution)
          /\ Reply("PointsChanged")
  /\ UNCHANGED baseline

DebugReset == ChangeSelectedMovementPoints(baseline)
DebugFree == ChangeSelectedMovementPoints([s \in Stack |-> FreeMovementPoints])

(* A cell a click can name: the map, and one cell outside of it.           *)
Destination == Cells \cup {<<Width, 0>>}

SessionNext ==
  \/ RejectBusy
  \/ \E s \in Stack \cup {UnknownStack} : Select(s)
  \/ ClearSelection
  \/ \E destination \in Destination : Plan(destination)
  \/ Confirm
  \/ AdvanceStep
  \/ DebugReset
  \/ DebugFree

SessionSpec == SessionInit /\ [][SessionNext]_sessionVars

-----------------------------------------------------------------------------
Route(r) == /\ r.start \in Cells /\ r.destination \in Cells /\ r.total \in Nat
            /\ \A i \in DOMAIN r.steps : r.steps[i].cell \in Cells

(* Type invariant of GameSession.hpp's members and of                      *)
(* AdventureMovementState.hpp: in particular no plan offers fewer points   *)
(* than none, although a scenario may give a stack a negative number.      *)
SessionTypeOK ==
  /\ \A s \in Stack : stacks[s].move \in Int /\ baseline[s] \in Nat
  /\ mode \in Mode /\ selected \in Stack \cup {NoStack}
  /\ planned # None => /\ planned.stack \in OnMap /\ planned.profile \in Profile
                       /\ Route(planned.route) /\ planned.available \in Nat
                       /\ planned.unaffordable \in 0 .. Len(planned.route.steps)
  /\ execution # None => /\ execution.stack \in OnMap /\ execution.profile \in Profile
                         /\ Route(execution.route) /\ execution.requested \in Cells
                         /\ execution.limited \in BOOLEAN
                         /\ execution.next \in Nat \ {0} /\ execution.spent \in Nat

(* The preview the screen asks for on every frame never throws             *)
(* (GameSession.cpp:40-68, AdventureRoutePreviewBuilder.cpp:13-54): in     *)
(* every mode the parts of the state that mode needs are there, belong to  *)
(* the selected stack, and the affordability recorded with the route is    *)
(* the one its cumulative costs give for the points available.             *)
PreviewNeverThrows ==
  /\ SessionTypeOK
  /\ mode = "RoutePlanned" =>
       /\ planned # None /\ planned.stack = selected
       /\ WellFormedRoute(planned.route)
       /\ planned.unaffordable = FirstUnaffordable(planned.route, planned.available)
  /\ mode = "Moving" =>
       /\ execution # None /\ execution.stack = selected /\ selected \in OnMap
       /\ execution.next \in DOMAIN execution.route.steps
       /\ WellFormedRoute(execution.route)
       /\ LET budget == stacks[selected].move + execution.spent
          IN budget >= 0 /\ FirstUnaffordable(execution.route, budget) = 0

(* What was true when a route was confirmed is still true at each of its   *)
(* steps: no movement is interrupted (GameSession.cpp:364-413), neither    *)
(* for the points nor for the cells, the price or the progress recorded.   *)
MovementIsNotInterrupted == reply.event # "Interrupted"

(* What was true when a route was planned is still true at its             *)
(* confirmation (GameSession.cpp:244-309), or the plan was dropped first.  *)
PlansDoNotGoStale ==
  reply.reason \notin {"SelectedStackChanged", "StackPositionChanged",
                       "MovementProfileChanged", "RouteChanged"}

(* Neither a movement, nor a plan, nor its preview meets a changed world.  *)
PlansHold == PreviewNeverThrows /\ MovementIsNotInterrupted /\ PlansDoNotGoStale

(* A movement that ends has brought its stack to the cell announced at its *)
(* start, the planned one unless the points fell short                     *)
(* (GameSession.cpp:332-346, 430-437).                                     *)
ArrivesWherePromised ==
  [][mode = "Moving" /\ mode' # "Moving" =>
       LET at == stacks'[execution.stack].position
       IN /\ at = execution.route.destination
          /\ ~execution.limited => at = execution.requested
          /\ mode' = "StackSelected" /\ selected' = execution.stack]_sessionVars

JourneyOf == INSTANCE Journey WITH Traveller <- OnMap, LeaderProfile <- Leader

(* The world only changes as module Journey allows (GameSession.cpp:422-   *)
(* 426, 571): every cell entered is free, passable and paid for.           *)
ImplementsJourney == JourneyOf!JourneySpec
=============================================================================
