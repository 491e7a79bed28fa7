SPECIFICATION Spec
CONSTANTS
  Threads = {t1, t2}
  Clients = {c1, c2}
  NULL = NULL
  Method = "Thunk"
INVARIANTS
  TypeOK
  SuppressionHolds
  PathCopiedWhole
  OncePerThread
  ThunkViewsMatchApcs
  QueuedApcPending
SYMMETRY Symmetry
