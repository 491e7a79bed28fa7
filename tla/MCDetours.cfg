SPECIFICATION Spec
CONSTANTS
  Threads = {t1, t2}
  h1 = h1
  h2 = h2
  h3 = h3
  r1 = r1
  r2 = r2
  p1 = p1
  p2 = p2
  Hooks <- MCHooks
  Regions <- MCRegions
  Near <- MCNear
  PageOf <- MCPageOf
  PerRegion = 4
  NULL = NULL
INVARIANTS
  TypeOK
  TrampolinesAccounted
  NoDanglingJump
  
  PagesWritable
  PointersMatchCode
PROPERTIES
  FailedChangesNothing
