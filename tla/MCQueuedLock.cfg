SPECIFICATION Spec
CONSTANTS
  Threads = {t1, t2, t3}
  NULL = NULL
INVARIANTS
  NoLostWakeup
  BlocksLive
  AssertsHold
PROPERTIES
  ImplementsRWLock
SYMMETRY Symmetry
