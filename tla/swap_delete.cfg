SPECIFICATION Spec
CONSTANTS
  Packages <- MCTwoPackages
  Shipped <- MCTwoPackages
  Handlers = {h1, h2}
  Follower = follower
  Boot = boot
  Values = {0}
  MaxRequests = 4
  MaxWrites = 0
  MaxCrashes = 0
  None = None
INVARIANT CurrentStored
CHECK_DEADLOCK FALSE
