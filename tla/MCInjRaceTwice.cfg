SPECIFICATION Spec
CONSTANTS
  Threads = {t1, t2}
  Clients = {c1}
  NULL = NULL
  Method = "Thunk"
INVARIANTS
  InjectedOnce
CHECK_DEADLOCK FALSE
