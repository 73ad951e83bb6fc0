CONSTANTS
  q1 = q1
  q2 = q2
  p1 = p1
  p2 = p2
  NTasks = 2
  Period <- FastSlow
  OverrunLimit = 2
  StopPolicy = "HoldLast"
  FaultOnModuleBad = FALSE
  Outputs = {}
  Values = {0, 1}
  Zero = 0
  Safe <- SafeOne
  OnBadQuality <- AllHold
  PerSlot = FALSE
  StoreSets <- AnyStore
  ForceValues = {}
  OpRequests = {"Stop", "Run"}
  Programs = {p1}
  NoProgram = NoProgram
  NoForce = NoForce
  Undriven = Undriven
  Durations = {0, 1}
  InstallTimes = {0, 2}
  Jitter = {0}
  MaxSleep = 1
  MaxLag = 5
SPECIFICATION FairSpec
PROPERTIES
  ActivateSettles
  PendingObserved
  EveryTaskRuns
