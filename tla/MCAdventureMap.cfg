SPECIFICATION Spec
CONSTANTS
  Width = 3
  Height = 3
  Stack = {"a", "b"}
  PatchWidth = 5
  PatchHeight = 3
  Scenarios <- MCScenarios
  Hash <- MCHash
  Disks <- MCDisks
  Numerals <- MCNumerals
  Lower <- MCLower
  Resource <- MCResource
  Isounits <- MCIsounits
INVARIANTS
  AnswersAreRight
  SurfaceIsSound
  MapIsDrawnAsWalked
CHECK_DEADLOCK FALSE
