----------------------------- MODULE Pathfinder -----------------------------
(***************************************************************************)
(* AdventurePathfinder::find_path as the loop it is: one action for each   *)
(* way an iteration can go.  A request is a record [nav, profile, mover,   *)
(* start, goal]; module AdventureMap makes them.  The search is compared   *)
(* with WithinCost, a definition of the cheapest cost that knows neither   *)
(* heuristic, queue nor predecessors.                                      *)
(***************************************************************************)
EXTENDS AdventureRules

VARIABLES request, search, result
pathVars == <<request, search, result>>

NoSearch == [open |-> {}, closed |-> {}]
Pending == [status |-> "Pending", route |-> NoRoute]

NoRequest == [goal |-> Nowhere]

PathInit ==
  /\ request = NoRequest
  /\ search = NoSearch
  /\ result = Pending

Nav == request.nav
RequestRefusal ==
  Refusal(request.nav, request.profile, request.mover, request.start, request.goal)

Asked == request # NoRequest /\ search = NoSearch /\ result = Pending

Refuse ==
  /\ Asked /\ RequestRefusal # "None"
  /\ result' = [status |-> RequestRefusal,
                route |-> IF RequestRefusal = "AlreadyAtDestination"
                          THEN EmptyRoute(request.start) ELSE NoRoute]
  /\ UNCHANGED <<request, search>>

Begin ==
  /\ Asked /\ RequestRefusal = "None"
  /\ search' = StartSearch(request.profile, request.start, request.goal)
  /\ UNCHANGED <<request, result>>

Searching == search # NoSearch /\ result = Pending

SkipStale ==
  /\ Searching /\ search.open # {}
  /\ Stale(search, Top(search.open))
  /\ search' = Popped(search)
  /\ UNCHANGED <<request, result>>

Expand ==
  /\ Searching /\ search.open # {}
  /\ LET e == Top(search.open)
     IN /\ ~Stale(search, e) /\ e.cell # request.goal
        /\ search' = Expanded(Nav, request.profile, request.mover, request.goal,
                              Closed(Popped(search), e), e)
  /\ UNCHANGED <<request, result>>

Arrive ==
  /\ Searching /\ search.open # {}
  /\ LET e == Top(search.open)
         route == Reconstructed(search, request.start, request.goal)
     IN /\ ~Stale(search, e) /\ e.cell = request.goal
        /\ search' = Closed(Popped(search), e)
        /\ result' = [status |-> IF route = NoRoute THEN "NoPath" ELSE "Found", route |-> route]
  /\ UNCHANGED request

Exhaust ==
  /\ Searching /\ search.open = {}
  /\ result' = [status |-> "NoPath", route |-> NoRoute]
  /\ UNCHANGED <<request, search>>

PathNext == Refuse \/ Begin \/ SkipStale \/ Expand \/ Arrive \/ Exhaust

-----------------------------------------------------------------------------
(* The reference, without heuristic, queue or predecessors: WithinCost[k+1] *)
(* is the set of cells that some walk from the start enters for k or less.  *)
WithinCost ==
  LET Cost(c) == EnterCost(Nav, request.profile, request.mover, c)
      Sets[k \in Nat] ==
        IF k = 0 THEN << {request.start} >>
        ELSE LET sets == Sets[k - 1]
                 Entered(c) == /\ Cost(c) \in (1 .. k)
                               /\ \E b \in sets[k - Cost(c) + 1] : Adjacent(b, c)
             IN Append(sets, {c \in Cells : c \in sets[k] \/ Entered(c)})
  IN Sets[Unreached - 1]

IsCheapest(cell, cost) ==
  /\ cell \in WithinCost[cost + 1]
  /\ cost > 0 => cell \notin WithinCost[cost]
IsReachable(cell) == cell \in WithinCost[Unreached]

(* Type invariant of the search: the open queue, the costs and the         *)
(* predecessors of AdventurePathfinder.cpp:171-175.                        *)
PathTypeOK ==
  /\ result.status \in {"Pending", "Found", "AlreadyAtDestination", "StartOutOfBounds",
                        "DestinationOutOfBounds", "StartBlocked", "DestinationBlocked", "NoPath",
                        "NavigationMapInvalid"}
  /\ search # NoSearch =>
       /\ search.best \in [Cells -> 0 .. Unreached]
       /\ search.from \in [Cells -> Cells \cup {Nowhere}]
       /\ search.closed \subseteq Cells
       /\ \A e \in search.open : e.cell \in Cells /\ e.g \in Nat /\ e.h \in Nat /\ e.seq < search.seq

(* A route that is found is a cheapest one, every step of it enters a      *)
(* neighbouring cell the stack may enter, at the price of that cell: the   *)
(* promise of AdventurePathfinder.cpp:188-195 to confirm and to the step.  *)
FoundRouteIsShortest ==
  result.status = "Found" =>
    LET r == result.route
    IN /\ WellFormedRoute(r) /\ r.start = request.start /\ r.destination = request.goal
       /\ \A i \in DOMAIN r.steps :
            r.steps[i].cost = EnterCost(Nav, request.profile, request.mover, r.steps[i].cell)
       /\ IsCheapest(request.goal, r.total)

(* NoPath is answered only when there is none; in particular the failure   *)
(* exits of reconstruct_route (AdventurePathfinder.cpp:97-128) never hide  *)
(* a route that was found.                                                 *)
NoPathMeansUnreachable ==
  result.status = "NoPath" => ~IsReachable(request.goal)

(* A closed cell has its final cost, so `closed` may discard every later   *)
(* entry for it (AdventurePathfinder.cpp:185): the heuristic, cheapest     *)
(* step times Chebyshev distance, is consistent for every profile.         *)
ClosedCellsAreSettled ==
  /\ PathTypeOK
  /\ search # NoSearch => \A c \in search.closed : IsCheapest(c, search.best[c])

(* The loop computes what FindPath says, the function GameSession calls.   *)
LoopComputesFindPath ==
  request # NoRequest /\ result # Pending =>
    result = FindPath(Nav, request.profile, request.mover, request.start, request.goal)

(* What the search answers is the truth, and so is what it relies on on    *)
(* the way: a found route is cheapest, NoPath is never wrong, a cell that  *)
(* is closed never has a cheaper way left, and GameSession calls the same  *)
(* search (AdventurePathfinder.cpp:182-222).                               *)
AnswersAreRight ==
  FoundRouteIsShortest /\ NoPathMeansUnreachable /\ ClosedCellsAreSettled /\ LoopComputesFindPath
=============================================================================
