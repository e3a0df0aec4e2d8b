SPECIFICATION FairSpec
CONSTANTS
  Worker = Worker
  Free = Free
  Clients = {c1}
  MaxBatches = 2
  MaxItems = 1
PROPERTY
  DestructorEnds
CHECK_DEADLOCK FALSE
