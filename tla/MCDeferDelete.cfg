SPECIFICATION DeferSpec
CONSTANTS
  Callers = {c1, c2}
  Workers = {w1, w2, w3}
  Items = {i1, i2}
  Objects = {o1, o2}
  MinimumThreads = 0
  MaximumThreads = 3
  NULL = NULL
INVARIANTS
  ObjectsHaveWork
CHECK_DEADLOCK FALSE
