SPECIFICATION Spec
CONSTANTS
  Worker = Worker
  Free = Free
  Clients = {c1}
  MaxBatches = 2
  MaxItems = 2
INVARIANT
  DestructorStaysDefined
CHECK_DEADLOCK FALSE
