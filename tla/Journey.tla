------------------------------ MODULE Journey -------------------------------
(***************************************************************************)
(* What adventure movement promises about the world, whatever commands are *)
(* given: a stack on the map only ever changes its cell by entering a      *)
(* neighbouring cell that its leader may enter and that nobody is on, pays *)
(* the price of that cell from the points it has, and gets points in no    *)
(* other way than the two debug commands.                                  *)
(***************************************************************************)
EXTENDS AdventureRules

CONSTANTS
  Terrain,            (* [ground, road, blocking], fixed during a session   *)
  Traveller,          (* the stacks on the map                              *)
  LeaderProfile,      (* the movement profile of every traveller            *)
  FreeMovementPoints  (* kAdventureDebugFreeMovementPoints                  *)

VARIABLES stacks, baseline  (* as in GameSession *)

Free(cell) == /\ cell \in Cells \ Terrain.blocking
              /\ \A s \in Traveller : stacks[s].position # cell
Price(s, cell) == GroundCost(LeaderProfile[s], Terrain.ground[cell], cell \in Terrain.road)

Walk(s, cell) ==
  /\ stacks' = [stacks EXCEPT ![s] = [position |-> cell, move |-> stacks'[s].move]]
  /\ Adjacent(stacks[s].position, cell) /\ Free(cell)
  /\ Price(s, cell) # Impassable
  /\ stacks'[s].move = stacks[s].move - Price(s, cell) /\ stacks'[s].move >= 0

Refill(s) ==
  \E points \in {baseline[s], FreeMovementPoints} : stacks' = [stacks EXCEPT ![s].move = points]

JourneyInit == baseline = [s \in Stack |-> IF stacks[s].move < 0 THEN 0 ELSE stacks[s].move]
JourneyNext ==
  /\ UNCHANGED baseline
  /\ \E s \in Traveller : Refill(s) \/ \E cell \in Cells : Walk(s, cell)

JourneySpec == JourneyInit /\ [][JourneyNext]_<<stacks, baseline>>
=============================================================================
