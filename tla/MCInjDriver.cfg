SPECIFICATION Spec
CONSTANTS
  Pids = {p1, p2}
  Threads = {t1, t2, t3}
  ProcessOf <- OwnersOf
  Infos = {i1, i2}
  Paths = {b1, b2}
  NULL = NULL
  Method = "Thunkless"
  SupportsWow64 = TRUE
  InjIsWindows7 = FALSE
  Kinds <- NativeKinds
INVARIANTS
  InfosLinkedOnce
  PathsOwnedOnce
  ApcContextsLinked
  StopsOnlyIfStaleOrMissed
  ProtectedNotInjected
  UnloadedMeansGone
  IInv
PROPERTIES
  PathsFreedWithInfos
  ImplementsTracking
SYMMETRY Symmetry
CHECK_DEADLOCK FALSE
