SPECIFICATION Spec
CONSTANTS
  Threads = {t1, t2}
  m1 = m1
  m2 = m2
  n1 = n1
  n2 = n2
  Mods = {m0, m1, m2}
  Nodes = {n0, n1, n2}
  Ctxs = {c1, c2}
  Names = {a, b}
  Ntdll = m0
  NtdllNode = n0
  NtdllName = a
  Main = main
  NULL = NULL
  HookTargets = 9
  Garbage = Garbage
  DeadName = DeadName
INVARIANTS
  WatchTypeOK
  HandlersReadLiveMemory
  NamesAreCurrent
  OffsetsBeforeHooks
CHECK_DEADLOCK FALSE
SYMMETRY Symmetry
