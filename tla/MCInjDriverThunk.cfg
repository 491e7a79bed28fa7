SPECIFICATION Spec
CONSTANTS
  Pids = {p1}
  Threads = {t1, t2}
  ProcessOf <- OwnersOf
  Infos = {i1}
  Paths = {b1}
  NULL = NULL
  Method = "Thunk"
  SupportsWow64 = TRUE
  InjIsWindows7 = TRUE
  Kinds <- AllKinds
INVARIANTS
  RightLdrLoadDll
SYMMETRY Symmetry
CHECK_DEADLOCK FALSE
