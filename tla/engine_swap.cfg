CONSTANTS
  q1 = q1
  q2 = q2
  p1 = p1
  p2 = p2
  NTasks = 2
  Period <- FastSlow
  OverrunLimit = 2
  StopPolicy = "HoldLast"
  FaultOnModuleBad = FALSE
  Outputs = {q1}
  Values = {0, 1}
  Zero = 0
  Safe <- SafeOne
  OnBadQuality <- AllHold
  PerSlot = FALSE
  StoreSets <- AllStore
  ForceValues = {0}
  OpRequests = {"Stop", "Run", "FaultReset"}
  Programs = {p1, p2}
  NoProgram = NoProgram
  NoForce = NoForce
  Undriven = Undriven
  Durations = {0, 2}
  InstallTimes = {0, 2}
  Jitter = {0}
  MaxSleep = 1000
  MaxLag = 2
SYMMETRY ProgramSymmetry
SPECIFICATION Spec
INVARIANTS
  FirstScanExact
  EpochConsistent
  OverrunTripsBeforeOutputs
  StartupSafe
