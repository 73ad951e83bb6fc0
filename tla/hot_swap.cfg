SPECIFICATION Spec
CONSTANTS
  Packages <- MCPackages
  Shipped <- MCShipped
  Handlers = {h1, h2}
  Follower = follower
  Boot = boot
  Values = {0, 1}
  MaxRequests = 3
  MaxWrites = 1
  MaxCrashes = 1
  None = None
INVARIANTS ArmedFitsCurrent InfoMatchesEngine PointerHasRun
PROPERTIES RetainCarried PendingKept ValidatingEnds
CHECK_DEADLOCK FALSE
