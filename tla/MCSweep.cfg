SPECIFICATION SweepSpec
CONSTANTS
  Worlds <- MCWorlds
  Rosters <- MCRosters
  MaxRounds = 2
  MaxActions = 5
INVARIANTS
  BadEndsAreExplained
  SummaryAddsUp
PROPERTY
  SweepEnds
CHECK_DEADLOCK FALSE
