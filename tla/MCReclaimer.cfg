SPECIFICATION FairSpec
CONSTANTS
  Worker = Worker
  Free = Free
  Clients = {c1, c2}
  MaxBatches = 2
  MaxItems = 2
INVARIANTS
  ItemsAreAccountedFor
PROPERTIES
  ReturnsMeanFreed
  DrainReturns
CHECK_DEADLOCK FALSE
