SPECIFICATION HooksSpec
CONSTANTS
  Threads = {t1, t2}
  h1 = h1
  h2 = h2
  h3 = h3
  h4 = h4
  r1 = r1
  r2 = r2
  r3 = r3
  p1 = p1
  p2 = p2
  Hooks <- MCHooks
  Regions <- MCRegions
  Near <- MCNear
  PageOf <- MCPageOf
  Order <- MCOrder
  PerRegion = 4
  NULL = NULL
INVARIANTS
  AssertsHook
  NothingLeft
CHECK_DEADLOCK FALSE
