SPECIFICATION PreloadSpec
CONSTANTS
  w1 = w1
  w2 = w2
  c1 = c1
  d1 = d1
  Free = Free
  Workers <- TwoWorkers
  Clients <- OneClient
  Readers <- ThreeReaders
  Main = c1
  Other = d1
  Plans <- AllPlans
  MaxJobs = 5
INVARIANTS
  ResultsAreRight
  JobsAreAccountedFor
PROPERTIES
  IdleMeansAllDone
  PreloadKeepsToItsOwn
  PreloadEnds
CHECK_DEADLOCK FALSE
