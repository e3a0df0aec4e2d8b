SPECIFICATION ScreenSpec
CONSTANTS
  Width = 3
  Height = 2
  Stack = {"walker", "flyer", "guard", "settled", "lost"}
  UnknownStack = "unknown"
  Terrain <- MCTerrain
  Whereabouts <- MCWhereabouts
  Leader <- MCLeader
  Worlds <- MCWorlds
  FreeMovementPoints = 6
  SegmentDuration = 2
  Deltas = {1, 3, 5}
INVARIANTS
  PlansHold
  FilmAndSessionAgree
PROPERTIES
  ArrivesWherePromised
  ImplementsJourney
  TimeIsKept
  MovementEnds
