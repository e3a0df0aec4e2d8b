SPECIFICATION FairSpec
CONSTANTS
  Keys = {wolf, elf}
  Workers = {w1, w2}
  Urgent = 2
  MaxImages = 2
  MaxIssued = 4
INVARIANTS
  RequestsAreAccountedFor
PROPERTIES
  MostUrgentFirst
  RequestsAreAnswered
CHECK_DEADLOCK FALSE
