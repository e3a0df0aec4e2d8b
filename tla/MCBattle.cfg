SPECIFICATION Spec
CONSTANTS
  Rosters <- MCRosters
  MaxRounds = 2
INVARIANTS
  ValidState
  OffersAreTheAcceptedOnes
  AcceptedAttacksSucceed
PROPERTIES
  DrainIsShared
  HealingStopsAtMaximum
  ImplementsDuel
CHECK_DEADLOCK FALSE
