CONSTANTS
  q1 = q1
  q2 = q2
  p1 = p1
  p2 = p2
  NTasks = 1
  Period <- OnePeriod
  OverrunLimit = 2
  StopPolicy = "Safe"
  FaultOnModuleBad = TRUE
  Outputs = {q1}
  Values = {0, 1}
  Zero = 0
  Safe <- SafeOne
  OnBadQuality <- AllForce
  PerSlot = TRUE
  StoreSets <- AnyStore
  ForceValues = {0}
  OpRequests = {"Stop", "Run", "Sim", "FaultReset"}
  Programs = {p1}
  NoProgram = NoProgram
  NoForce = NoForce
  Undriven = Undriven
  Durations = {0, 2}
  InstallTimes = {0, 2}
  Jitter = {0}
  MaxSleep = 1
  MaxLag = 2
SPECIFICATION Spec
INVARIANTS
  TypeOK
  FaultHoldsSafe
  GateHoldsSafe
PROPERTIES
  FaultLatched
  ForcesCleared
