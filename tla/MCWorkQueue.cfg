SPECIFICATION FairSpec
CONSTANTS
  Callers = {c1, c2}
  Workers = {w1, w2, w3}
  Items = {i1, i2}
  MinimumThreads = 1
  MaximumThreads = 2
  NULL = NULL
INVARIANTS
  NotUsedAfterDelete
PROPERTIES
  ItemsRun
  DeleteEnds
CHECK_DEADLOCK FALSE
