-------------------------- MODULE ScanEngineProofs --------------------------
(***************************************************************************)
(* Proofs about the scan engine for every task table, every set of output  *)
(* slots and every set of programs.                                        *)
(***************************************************************************)
EXTENDS ScanEngine, TLAPS

(* The type invariant is inductive by itself: the bound on due needs that  *)
(* an invoked task was due, which TypeOK carries.                          *)
LEMMA TypeInit == Init => TypeOK
<1> SUFFICES ASSUME Init PROVE TypeOK OBVIOUS
<1>1. /\ task \in Tasks
      /\ consec \in [Tasks -> 0..OverrunLimit]
      /\ due \in [Tasks -> Int]
      /\ \A t \in Tasks : due[t] \in -MaxLag..Period[t]
  BY TaskAssumption, TimeAssumption DEF Init, Tasks, Highest
<1>2. /\ vmOut \in [Outputs -> Values] /\ imgOut \in [Outputs -> Values]
      /\ forces \in [Outputs -> Values \cup {NoForce}]
      /\ field \in [Outputs -> Values \cup {Undriven}]
      /\ imgWritten \subseteq Outputs
  BY IoAssumption DEF Init, NoForces
<1>3. /\ mode \in Modes /\ gate \in Modes
      /\ pending \in Requests \cup {"None"}
      /\ phase \in Phases
      /\ pc \in Pcs /\ pc = "sleep"
      /\ inputQ \in Quality /\ moduleQ \in Quality
  BY DEF Init, Modes, Requests, Phases, Pcs, Quality
<1>4. /\ activateReq \in BOOLEAN /\ hold \in BOOLEAN /\ firstRun \in BOOLEAN
      /\ ranOk \in BOOLEAN /\ applyOk \in BOOLEAN
      /\ firstScan \in [Tasks -> BOOLEAN] /\ done \subseteq Tasks
      /\ armed \in ArmedBuffers \cup {NoArm}
      /\ current \in Programs \cup {NoProgram}
  BY DEF Init
<1>5. QED BY <1>1, <1>2, <1>3, <1>4 DEF TypeOK

(* The operators' actions keep the types.                                  *)
LEMMA TypeOperator == TypeOK /\ Operator => TypeOK'
<1> SUFFICES ASSUME TypeOK, Operator PROVE TypeOK' OBVIOUS
<1> USE DEF TypeOK, modeVars, epochVars, imageVars, ioVars, histVars
<1>1. CASE \E req \in OpRequests : RequestMode(req)
  BY <1>1, RequestAssumption DEF RequestMode
<1>2. ASSUME NEW p \in Programs, NEW pol \in Policies, NEW fits \in BOOLEAN,
             Arm(p, pol, fits)
      PROVE  TypeOK'
  <2>1. [id |-> p, policy |-> pol, fits |-> fits] \in ArmedBuffers
    BY DEF ArmedBuffers
  <2>2. QED BY <1>2, <2>1 DEF Arm, Phases
<1>3. CASE Disarm
  BY <1>3 DEF Disarm, Phases
<1>4. CASE RequestActivate
  BY <1>4 DEF RequestActivate, Phases
<1>5. CASE \E o \in Outputs, v \in ForceValues \cup {NoForce} : SetForce(o, v)
  BY <1>5, IoAssumption DEF SetForce
<1>6. QED BY <1>1, <1>2, <1>3, <1>4, <1>5 DEF Operator

(* The clock only moves forward, so no task gets further ahead.            *)
LEMMA ElapseType ==
  ASSUME TypeOK, NEW d \in Nat, WithinLag(Elapse(d))
  PROVE  /\ Elapse(d) \in [Tasks -> Int]
         /\ \A t \in Tasks : /\ Elapse(d)[t] \in -MaxLag..Period[t]
                             /\ Elapse(d)[t] <= due[t]
BY TaskAssumption, TimeAssumption DEF TypeOK, Elapse, WithinLag

(* Sleeping, the mode boundary and picking a task keep the types.          *)
LEMMA TypeScanLoop ==
  ASSUME TypeOK,
         \/ \E t \in Tasks, j \in Jitter : Sleep(due[t], j)
         \/ ModeBoundary
         \/ \E t \in Tasks : PickTask(t)
         \/ EndRunDue
  PROVE  TypeOK'
<1> USE DEF modeVars, epochVars, imageVars, ioVars, histVars
<1>1. ASSUME NEW t \in Tasks, NEW j \in Jitter, Sleep(due[t], j)
      PROVE  TypeOK'
  <2>1. SleepTime(due[t]) + j \in Nat
    BY TimeAssumption DEF TypeOK, SleepTime
  <2>2. /\ due' \in [Tasks -> Int]
        /\ \A u \in Tasks : due'[u] \in -MaxLag..Period[u]
    BY <1>1, <2>1, ElapseType DEF Sleep
  <2>3. QED BY <1>1, <2>2 DEF Sleep, TypeOK, Pcs
<1>2. CASE ModeBoundary
  BY <1>2, IoAssumption
     DEF ModeBoundary, TypeOK, Target, Modes, Requests, NoForces, Pcs
<1>3. ASSUME NEW t \in Tasks, PickTask(t) PROVE TypeOK'
  BY <1>3 DEF PickTask, PickDue, DueTasks, TypeOK, Pcs
<1>4. CASE EndRunDue
  BY <1>4 DEF EndRunDue, TypeOK, Pcs
<1>5. QED BY <1>1, <1>2, <1>3, <1>4

(* The install keeps the types; the skip rule moves only late tasks.       *)
LEMMA TypeInstall == TypeOK /\ Install => TypeOK'
<1> SUFFICES ASSUME TypeOK, Install PROVE TypeOK' OBVIOUS
<1> USE DEF modeVars, epochVars, imageVars, ioVars, histVars
<1>1. CASE SkipInstall
  BY <1>1 DEF SkipInstall, TypeOK, Pcs
<1>2. CASE BeginInstall
  BY <1>2 DEF BeginInstall, TypeOK, Pcs, Phases
<1>3. ASSUME NEW d \in InstallTimes, FaultInstall(d) PROVE TypeOK'
  <2>1. /\ due' \in [Tasks -> Int]
        /\ \A u \in Tasks : due'[u] \in -MaxLag..Period[u]
    BY <1>3, ElapseType, TimeAssumption DEF FaultInstall
  <2>2. QED BY <1>3, <2>1 DEF FaultInstall, FaultIf, NoForces, TypeOK, Pcs,
                              Phases, Modes
<1>4. ASSUME NEW d \in InstallTimes, DeferInstall(d) PROVE TypeOK'
  <2>1. /\ due' \in [Tasks -> Int]
        /\ \A u \in Tasks : due'[u] \in -MaxLag..Period[u]
    BY <1>4, ElapseType, TimeAssumption DEF DeferInstall
  <2>2. QED BY <1>4, <2>1 DEF DeferInstall, TypeOK, Pcs, Phases
<1>5. ASSUME NEW d \in InstallTimes, CommitInstall(d) PROVE TypeOK'
  <2>1. /\ Elapse(d) \in [Tasks -> Int]
        /\ \A u \in Tasks : Elapse(d)[u] \in -MaxLag..Period[u]
    BY <1>5, ElapseType, TimeAssumption DEF CommitInstall
  <2>2. /\ due' \in [Tasks -> Int]
        /\ \A u \in Tasks : due'[u] \in -MaxLag..Period[u]
    BY <1>5, <2>1, TaskAssumption, TimeAssumption DEF CommitInstall, SkipRule
  <2>3. /\ imgOut' \in [Outputs -> Values] /\ imgWritten' \subseteq Outputs
        /\ vmOut' \in [Outputs -> Values]
        /\ firstScan' \in [Tasks -> BOOLEAN]
    BY <1>5, IoAssumption DEF CommitInstall, TypeOK
  <2>4. /\ current' \in Programs \cup {NoProgram}
        /\ armed' \in ArmedBuffers \cup {NoArm}
    BY <1>5 DEF CommitInstall, TypeOK, ArmedBuffers, NoArm
  <2>5. QED BY <1>5, <2>2, <2>3, <2>4 DEF CommitInstall, TypeOK, Pcs, Phases
<1>6. QED BY <1>1, <1>2, <1>3, <1>4, <1>5 DEF Install

(* What an output phase hands to the driver is a value.                    *)
LEMMA EffectiveType ==
  ASSUME TypeOK, NEW o \in Outputs, NEW g, NEW q
  PROVE  Effective(o, g, q) \in Values
<1>1. Safe[o] \in Values /\ imgOut[o] \in Values
      /\ forces[o] \in Values \cup {NoForce}
  BY IoAssumption DEF TypeOK
<1>2. QED BY <1>1 DEF Effective

(* An invocation keeps the types: its task was due, so rescheduling leaves *)
(* it at most one period ahead.                                            *)
LEMMA TypeInvoke == TypeOK /\ Invoke => TypeOK'
<1> SUFFICES ASSUME TypeOK, Invoke PROVE TypeOK' OBVIOUS
<1> USE DEF modeVars, epochVars, imageVars, ioVars, histVars
<1>0. ASSUME NEW c, FaultIf(c)
      PROVE  mode' \in Modes /\ forces' \in [Outputs -> Values \cup {NoForce}]
  BY <1>0 DEF FaultIf, NoForces, TypeOK, Modes
<1>1. ASSUME NEW ok \in BOOLEAN, NEW q \in Quality, SampleInputs(ok, q)
      PROVE  TypeOK'
  <2>1. mode' \in Modes /\ forces' \in [Outputs -> Values \cup {NoForce}]
    BY <1>0, <1>1 DEF SampleInputs
  <2>2. inputQ' \in Quality /\ moduleQ' \in Quality
    BY <1>1 DEF SampleInputs, TypeOK
  <2>3. QED BY <1>1, <2>1, <2>2 DEF SampleInputs, TypeOK, Pcs
<1>2. ASSUME NEW d \in Durations, NoLogic(d) PROVE TypeOK'
  <2>1. /\ due' \in [Tasks -> Int]
        /\ \A u \in Tasks : /\ due'[u] \in -MaxLag..Period[u]
                            /\ due'[u] <= due[u]
    BY <1>2, ElapseType, TimeAssumption DEF NoLogic
  <2>2. due'[task'] <= 0
    BY <1>2, <2>1 DEF NoLogic, TypeOK
  <2>3. QED BY <1>2, <2>1, <2>2 DEF NoLogic, TypeOK, Pcs
<1>3. ASSUME NEW d \in Durations, NEW w \in Stores,
             RunLogic(d, w) \/ LogicError(d, w)
      PROVE  TypeOK'
  <2>1. /\ due' \in [Tasks -> Int]
        /\ \A u \in Tasks : /\ due'[u] \in -MaxLag..Period[u]
                            /\ due'[u] <= due[u]
    BY <1>3, ElapseType, TimeAssumption DEF RunLogic, LogicError
  <2>2. due'[task'] <= 0
    <3>1. task' = task /\ pc = "logic"
      BY <1>3 DEF RunLogic, LogicError
    <3>2. task \in Tasks /\ due[task] \in Int /\ due[task] <= 0
      BY <3>1 DEF TypeOK
    <3>3. QED BY <2>1, <3>1, <3>2
  <2>3. \A o \in DOMAIN w : w[o] \in Values
    BY DEF Stores
  <2>4. vmOut' \in [Outputs -> Values]
    BY <1>3, <2>3 DEF RunLogic, LogicError, TypeOK
  <2>5. DOMAIN w \subseteq Outputs
    BY IoAssumption DEF Stores
  <2>6. imgOut' \in [Outputs -> Values] /\ imgWritten' \subseteq Outputs
    BY <1>3, <2>4, <2>5 DEF RunLogic, LogicError, TypeOK
  <2>7. Note(d) \in 0..OverrunLimit
    BY TaskAssumption DEF Note, TypeOK
  <2>8. consec' \in [Tasks -> 0..OverrunLimit]
    BY <1>3, <2>7 DEF RunLogic, LogicError, TypeOK
  <2>9. mode' \in Modes /\ forces' \in [Outputs -> Values \cup {NoForce}]
    BY <1>0, <1>3 DEF RunLogic, LogicError
  <2>10. QED BY <1>3, <2>1, <2>2, <2>4, <2>6, <2>8, <2>9
             DEF RunLogic, LogicError, TypeOK, Pcs
<1>4. ASSUME NEW ok \in BOOLEAN, NEW r \in SUBSET Outputs,
             NEW sq \in SlotQualities, ApplyOutputs(ok, r, sq)
      PROVE  TypeOK'
  <2>1. field' \in [Outputs -> Values \cup {Undriven}]
    BY <1>4, EffectiveType DEF ApplyOutputs, TypeOK
  <2>2. mode' \in Modes /\ forces' \in [Outputs -> Values \cup {NoForce}]
    BY <1>0, <1>4 DEF ApplyOutputs
  <2>3. /\ due' \in [Tasks -> Int]
        /\ \A u \in Tasks : due'[u] \in -MaxLag..Period[u]
    <3>1. due' = [due EXCEPT ![task] = @ + Period[task]]
      BY <1>4 DEF ApplyOutputs, Reschedule
    <3>2. task \in Tasks /\ due[task] <= 0
      BY <1>4 DEF ApplyOutputs, TypeOK
    <3>3. /\ Period[task] \in Nat /\ MaxLag \in Nat
          /\ due[task] \in Int /\ due[task] >= -MaxLag
      BY <3>2, TaskAssumption, TimeAssumption DEF TypeOK
    <3>4. due'[task] \in -MaxLag..Period[task]
      BY <3>1, <3>2, <3>3 DEF TypeOK
    <3>5. \A u \in Tasks : u # task => due'[u] = due[u]
      BY <3>1 DEF TypeOK
    <3>6. due' \in [Tasks -> Int]
      BY <3>1, <3>2, <3>3 DEF TypeOK
    <3>7. QED BY <3>4, <3>5, <3>6 DEF TypeOK
  <2>4. /\ firstScan' \in [Tasks -> BOOLEAN] /\ done' \subseteq Tasks
        /\ moduleQ' \in Quality /\ gate' \in Modes /\ task' \in Tasks
    BY <1>4, TaskAssumption
       DEF ApplyOutputs, FirstScanAfter, TypeOK, Quality, Tasks, Highest
  <2>5. QED BY <1>4, <2>1, <2>2, <2>3, <2>4 DEF ApplyOutputs, TypeOK, Pcs
<1>5. QED
  BY <1>1, <1>2, <1>3, <1>4 DEF Invoke

(* Every step keeps the types.                                             *)
LEMMA TypeStep == TypeOK /\ [Next]_vars => TypeOK'
<1> SUFFICES ASSUME TypeOK, [Next]_vars PROVE TypeOK' OBVIOUS
<1>1. CASE UNCHANGED vars
  BY <1>1 DEF vars, modeVars, epochVars, imageVars, ioVars, histVars, TypeOK
<1>2. CASE Operator BY <1>2, TypeOperator
<1>3. CASE Install BY <1>3, TypeInstall
<1>4. CASE Invoke BY <1>4, TypeInvoke
<1>5. CASE \/ \E t \in Tasks, j \in Jitter : Sleep(due[t], j)
           \/ ModeBoundary
           \/ \E t \in Tasks : PickTask(t)
           \/ EndRunDue
  BY <1>5, TypeScanLoop
<1>6. QED BY <1>1, <1>2, <1>3, <1>4, <1>5 DEF Next, Scan

(* The types hold in every reachable state, for any task table, outputs    *)
(* and programs; in particular a task never gets more than one period      *)
(* ahead of its schedule, through sleeps, overruns and install skips.      *)
THEOREM TypeCorrect == Spec => []TypeOK
<1>1. Init => TypeOK BY TypeInit
<1>2. TypeOK /\ [Next]_vars => TypeOK' BY TypeStep
<1>3. QED BY <1>1, <1>2, PTL DEF Spec

-----------------------------------------------------------------------------
(* FAULT is latched and every entry into STOP or FAULT drops the forces:   *)
(* both follow from the shape of one step.                                 *)
LEMMA ModeStep ==
  ASSUME TypeOK, [Next]_vars
  PROVE  /\ mode = "FAULT" /\ mode' # "FAULT" =>
              mode' = "STOP" /\ pending = "FaultReset" /\ pc = "boundary"
         /\ mode' \in {"STOP", "FAULT"} /\ mode' # mode => forces' = NoForces
<1> USE DEF modeVars, epochVars, imageVars, ioVars, histVars
<1>1. CASE UNCHANGED vars
  BY <1>1 DEF vars
<1>2. CASE Operator
  BY <1>2 DEF Operator, RequestMode, Arm, Disarm, RequestActivate, SetForce
<1>3. CASE ModeBoundary
  <2>1. CASE pending # "None" /\ phase # "Swapping" /\ Legal(mode, pending)
    <3>1. /\ mode' = Target(pending) /\ pc = "boundary"
          /\ mode' = "STOP" => forces' = NoForces
          /\ pending \in Requests
      BY <1>3, <2>1 DEF ModeBoundary, TypeOK
    <3>2. mode = "FAULT" => pending = "FaultReset"
      BY <2>1, <3>1 DEF Legal, Requests
    <3>3. mode' # "FAULT" /\ (pending = "FaultReset" => mode' = "STOP")
      BY <3>1 DEF Target, Requests
    <3>4. QED BY <3>1, <3>2, <3>3
  <2>2. CASE ~(pending # "None" /\ phase # "Swapping" /\ Legal(mode, pending))
    BY <1>3, <2>2 DEF ModeBoundary
  <2>3. QED BY <2>1, <2>2
<1>4. CASE Install
  BY <1>4 DEF Install, SkipInstall, BeginInstall, FaultInstall, DeferInstall,
              CommitInstall, FaultIf
<1>5. CASE Invoke
  BY <1>5 DEF Invoke, SampleInputs, NoLogic, RunLogic, LogicError,
              ApplyOutputs, FaultIf
<1>6. CASE \/ \E t \in Tasks, j \in Jitter : Sleep(due[t], j)
           \/ \E t \in Tasks : PickTask(t)
           \/ EndRunDue
  BY <1>6 DEF Sleep, PickTask, EndRunDue
<1>7. QED BY <1>1, <1>2, <1>3, <1>4, <1>5, <1>6 DEF Next, Scan

(* Only a boundary that takes FAULT_RESET leaves FAULT.                    *)
THEOREM FaultIsLatched == Spec => FaultLatched
<1>1. TypeOK /\ [Next]_vars =>
        [mode = "FAULT" /\ mode' # "FAULT" =>
           mode' = "STOP" /\ pending = "FaultReset" /\ pc = "boundary"]_vars
  BY ModeStep
<1>2. QED BY <1>1, TypeCorrect, PTL DEF Spec, FaultLatched

(* No force survives an entry into STOP or FAULT.                          *)
THEOREM ForcesAreCleared == Spec => ForcesCleared
<1>1. TypeOK /\ [Next]_vars =>
        [mode' \in {"STOP", "FAULT"} /\ mode' # mode => forces' = NoForces]_vars
  BY ModeStep
<1>2. QED BY <1>1, TypeCorrect, PTL DEF Spec, ForcesCleared

-----------------------------------------------------------------------------
(* The output-safety invariant.  FaultHoldsSafe is about the moments when  *)
(* the thread sleeps; in between, a fault that was just entered has not    *)
(* reached the driver yet.  FaultInv adds the points of run_due at which   *)
(* the last output phase still speaks for the mode: the only gap is after  *)
(* a failed install, where the highest-priority task is due and its output *)
(* phase follows.                                                          *)
Settled ==
  \/ pc \in {"sleep", "boundary", "install", "swap"}
  \/ pc = "pick" /\ DueTasks = {}

FaultInv == mode = "FAULT" /\ applyOk /\ Settled => field = Safe

GateInv ==
  /\ pc \notin {"logic", "out"} /\ applyOk
  /\ gate = "FAULT" \/ (gate = "STOP" /\ StopPolicy = "Safe")
  => \A o \in Outputs : field[o] \in {Undriven, Safe[o]}

SwapAtHighest == pc = "swap" => armed # NoArm /\ due[Highest] <= 0

SafetyInv ==
  /\ FaultInv
  /\ GateInv
  /\ SwapAtHighest
  /\ StartupSafe
  /\ FirstScanExact
  /\ OverrunTripsBeforeOutputs
  /\ EpochConsistent

(* The strengthened invariant holds when the engine is built.              *)
LEMMA SafetyInit == Init => SafetyInv
BY TaskAssumption
   DEF Init, SafetyInv, FaultInv, GateInv, SwapAtHighest, StartupSafe,
       FirstScanExact, OverrunTripsBeforeOutputs, EpochConsistent

(* FaultInv: an accepted output phase in FAULT drives safe_state, one that *)
(* is refused clears applyOk, and every other step that can enter FAULT    *)
(* leaves the settled points.                                              *)
LEMMA FaultInvStep ==
  ASSUME TypeOK, SafetyInv, [Next]_vars PROVE FaultInv'
<1> USE DEF modeVars, epochVars, imageVars, ioVars, histVars
<1>0. FaultInv /\ SwapAtHighest BY DEF SafetyInv
<1>1. CASE UNCHANGED vars
  BY <1>0, <1>1 DEF vars, FaultInv, Settled, DueTasks
<1>2. CASE Operator
  <2>1. UNCHANGED <<mode, applyOk, pc, due, field>>
    BY <1>2 DEF Operator, RequestMode, Arm, Disarm, RequestActivate, SetForce
  <2>2. QED BY <1>0, <2>1 DEF FaultInv, Settled, DueTasks
<1>3. CASE ModeBoundary
  <2>1. mode' = "FAULT" => mode = "FAULT"
    BY <1>3 DEF ModeBoundary, Target, TypeOK, Requests
  <2>2. QED BY <1>0, <1>3, <2>1 DEF ModeBoundary, FaultInv, Settled
<1>4. CASE SkipInstall \/ BeginInstall
  BY <1>0, <1>4 DEF SkipInstall, BeginInstall, FaultInv, Settled
<1>5. ASSUME NEW d \in InstallTimes, FaultInstall(d) PROVE FaultInv'
  <2>1. due'[Highest] <= 0 /\ Highest \in Tasks
    <3>1. Highest \in Tasks
      BY TaskAssumption DEF Tasks, Highest
    <3>2. due[Highest] <= 0 /\ due[Highest] \in Int
      BY <1>0, <1>5, <3>1 DEF FaultInstall, SwapAtHighest, TypeOK
    <3>3. /\ due' = Elapse(d) /\ Elapse(d)[Highest] \in Int
          /\ Elapse(d)[Highest] <= due[Highest]
      BY <1>5, <3>1, ElapseType, TimeAssumption DEF FaultInstall
    <3>4. QED BY <3>1, <3>2, <3>3
  <2>2. pc' = "pick" /\ DueTasks' # {}
    BY <1>5, <2>1 DEF FaultInstall, DueTasks
  <2>3. QED BY <2>2 DEF FaultInv, Settled
<1>6. CASE \E d \in InstallTimes : DeferInstall(d) \/ CommitInstall(d)
  BY <1>0, <1>6 DEF DeferInstall, CommitInstall, FaultInv, Settled
<1>7. ASSUME NEW t \in Tasks, NEW j \in Jitter, Sleep(due[t], j)
      PROVE  FaultInv'
  BY <1>0, <1>7 DEF Sleep, FaultInv, Settled
<1>8. CASE \/ \E t \in Tasks : PickTask(t)
           \/ EndRunDue
  BY <1>0, <1>8 DEF PickTask, EndRunDue, FaultInv, Settled
<1>9. CASE \/ \E ok \in BOOLEAN, q \in Quality : SampleInputs(ok, q)
           \/ \E d \in Durations : NoLogic(d)
           \/ \E d \in Durations, w \in Stores :
                RunLogic(d, w) \/ LogicError(d, w)
  BY <1>9 DEF SampleInputs, NoLogic, RunLogic, LogicError, FaultInv, Settled
<1>10. ASSUME NEW sq \in SlotQualities, ApplyOutputs(TRUE, Outputs, sq)
       PROVE  FaultInv'
  <2>1. CASE mode = "FAULT"
    <3>1. field' = [o \in Outputs |-> Safe[o]]
      BY <1>10, <2>1 DEF ApplyOutputs, Effective
    <3>2. QED BY <3>1, IoAssumption DEF FaultInv
  <2>2. CASE mode # "FAULT"
    BY <1>10, <2>2 DEF ApplyOutputs, FaultIf, FaultInv
  <2>3. QED BY <2>1, <2>2
<1>11. ASSUME NEW sq \in SlotQualities, NEW r \in SUBSET Outputs,
              ApplyOutputs(FALSE, r, sq)
       PROVE  FaultInv'
  BY <1>11 DEF ApplyOutputs, FaultInv
<1>12. QED
  BY <1>1, <1>2, <1>3, <1>4, <1>5, <1>6, <1>7, <1>8, <1>9, <1>10, <1>11
     DEF Next, Scan, Install, Invoke

(* GateInv: an output phase writes the gate and the image together; the    *)
(* input phase rewrites the gate alone, but then pc is inside invoke.      *)
LEMMA GateInvStep ==
  ASSUME TypeOK, SafetyInv, [Next]_vars PROVE GateInv'
<1> USE DEF modeVars, epochVars, imageVars, ioVars, histVars
<1>0. GateInv BY DEF SafetyInv
<1>1. CASE UNCHANGED vars
  BY <1>0, <1>1 DEF vars, GateInv
<1>2. CASE Operator
  BY <1>0, <1>2 DEF Operator, RequestMode, Arm, Disarm, RequestActivate,
                    SetForce, GateInv
<1>3. CASE ModeBoundary
  BY <1>0, <1>3 DEF ModeBoundary, GateInv
<1>4. CASE Install
  BY <1>0, <1>4 DEF Install, SkipInstall, BeginInstall, FaultInstall,
                    DeferInstall, CommitInstall, GateInv
<1>5. ASSUME NEW t \in Tasks, NEW j \in Jitter, Sleep(due[t], j)
      PROVE  GateInv'
  BY <1>0, <1>5 DEF Sleep, GateInv
<1>6. CASE \/ \E t \in Tasks : PickTask(t)
           \/ EndRunDue
  BY <1>0, <1>6 DEF PickTask, EndRunDue, GateInv
<1>7. CASE \/ \E ok \in BOOLEAN, q \in Quality : SampleInputs(ok, q)
           \/ \E d \in Durations : NoLogic(d)
           \/ \E d \in Durations, w \in Stores :
                RunLogic(d, w) \/ LogicError(d, w)
  BY <1>7 DEF SampleInputs, NoLogic, RunLogic, LogicError, GateInv
<1>8. ASSUME NEW sq \in SlotQualities, ApplyOutputs(TRUE, Outputs, sq)
      PROVE  GateInv'
  <2>1. CASE GlobalSafe
    BY <1>8, <2>1 DEF ApplyOutputs, Effective, GateInv
  <2>2. CASE ~GlobalSafe
    BY <1>8, <2>2 DEF ApplyOutputs, GlobalSafe, GateInv
  <2>3. QED BY <2>1, <2>2
<1>9. ASSUME NEW sq \in SlotQualities, NEW r \in SUBSET Outputs,
             ApplyOutputs(FALSE, r, sq)
      PROVE  GateInv'
  BY <1>9 DEF ApplyOutputs, GateInv
<1>10. QED
  BY <1>1, <1>2, <1>3, <1>4, <1>5, <1>6, <1>7, <1>8, <1>9
     DEF Next, Scan, Invoke

(* StartupSafe: an output phase that leaves first_run_complete down is     *)
(* under the startup hold.                                                 *)
LEMMA StartupStep ==
  ASSUME TypeOK, SafetyInv, [Next]_vars PROVE StartupSafe'
<1> USE DEF modeVars, epochVars, imageVars, ioVars, histVars
<1>0. StartupSafe BY DEF SafetyInv
<1>1. ASSUME NEW ok \in BOOLEAN, NEW r \in SUBSET Outputs,
             NEW sq \in SlotQualities, ApplyOutputs(ok, r, sq)
      PROVE  StartupSafe'
  <2>1. CASE ~firstRun /\ ~ranOk
    <3>1. \A o \in Outputs : field'[o] = field[o] \/ field'[o] = Safe[o]
      BY <1>1, <2>1 DEF ApplyOutputs, GlobalSafe, Effective
    <3>2. QED BY <1>0, <2>1, <3>1 DEF StartupSafe
  <2>2. CASE ~(~firstRun /\ ~ranOk)
    BY <1>1, <2>2 DEF ApplyOutputs, StartupSafe
  <2>3. QED BY <2>1, <2>2
<1>2. ASSUME UNCHANGED <<firstRun, field>> PROVE StartupSafe'
  BY <1>0, <1>2 DEF StartupSafe
<1>3. CASE UNCHANGED vars
  BY <1>2, <1>3 DEF vars
<1>4. CASE Operator
  BY <1>2, <1>4 DEF Operator, RequestMode, Arm, Disarm, RequestActivate,
                    SetForce
<1>5. CASE \/ ModeBoundary
           \/ Install
           \/ EndRunDue
           \/ \E t \in Tasks : PickTask(t)
           \/ \E t \in Tasks, j \in Jitter : Sleep(due[t], j)
  BY <1>2, <1>5 DEF ModeBoundary, EndRunDue, PickTask, Sleep, Install,
       SkipInstall, BeginInstall, FaultInstall, DeferInstall, CommitInstall
<1>6. CASE \/ \E ok \in BOOLEAN, q \in Quality : SampleInputs(ok, q)
           \/ \E d \in Durations : NoLogic(d)
           \/ \E d \in Durations, w \in Stores :
                RunLogic(d, w) \/ LogicError(d, w)
  BY <1>2, <1>6 DEF SampleInputs, NoLogic, RunLogic, LogicError
<1>7. QED
  BY <1>1, <1>3, <1>4, <1>5, <1>6 DEF Next, Scan, Invoke

(* The epoch bookkeeping and the FirstScan bits.                           *)
LEMMA EpochStep ==
  ASSUME TypeOK, SafetyInv, [Next]_vars
  PROVE  EpochConsistent' /\ SwapAtHighest'
<1> USE DEF modeVars, epochVars, imageVars, ioVars, histVars
<1>0. EpochConsistent /\ SwapAtHighest BY DEF SafetyInv
<1>1. CASE UNCHANGED vars
  BY <1>0, <1>1 DEF vars, EpochConsistent, SwapAtHighest
<1>2. CASE RequestActivate \/ Disarm
  BY <1>0, <1>2 DEF RequestActivate, Disarm, EpochConsistent, SwapAtHighest
<1>3. ASSUME NEW p \in Programs, NEW pol \in Policies, NEW fits \in BOOLEAN,
             Arm(p, pol, fits)
      PROVE  EpochConsistent' /\ SwapAtHighest'
  <2>1. armed' # NoArm
    BY <1>3, IoAssumption DEF Arm, NoArm
  <2>2. QED BY <1>0, <1>3, <2>1 DEF Arm, EpochConsistent, SwapAtHighest
<1>4. CASE \/ \E req \in OpRequests : RequestMode(req)
           \/ \E o \in Outputs, v \in ForceValues \cup {NoForce} :
                SetForce(o, v)
  BY <1>0, <1>4 DEF RequestMode, SetForce, EpochConsistent, SwapAtHighest
<1>5. CASE BeginInstall
  BY <1>0, <1>5 DEF BeginInstall, InstallDue, EpochConsistent, SwapAtHighest
<1>6. CASE SkipInstall
  BY <1>0, <1>6 DEF SkipInstall, EpochConsistent, SwapAtHighest
<1>6a. ASSUME NEW d \in InstallTimes,
              FaultInstall(d) \/ DeferInstall(d) \/ CommitInstall(d)
       PROVE  EpochConsistent' /\ SwapAtHighest'
  <2>1. pc = "swap" /\ pc' = "pick" /\ ~activateReq'
    BY <1>6a DEF FaultInstall, DeferInstall, CommitInstall
  <2>2. phase' = "Idle" \/ (phase' = "Armed" /\ armed' = armed)
    BY <1>6a DEF FaultInstall, DeferInstall, CommitInstall
  <2>3. QED BY <1>0, <2>1, <2>2 DEF EpochConsistent, SwapAtHighest
<1>7. CASE \/ ModeBoundary
           \/ EndRunDue
           \/ \E t \in Tasks : PickTask(t)
           \/ \E t \in Tasks, j \in Jitter : Sleep(due[t], j)
  BY <1>0, <1>7 DEF ModeBoundary, EndRunDue, PickTask, Sleep,
                    EpochConsistent, SwapAtHighest
<1>8. CASE Invoke
  <2>1. /\ UNCHANGED <<activateReq, armed, phase>>
        /\ pc # "swap" /\ pc' # "swap"
    BY <1>8 DEF Invoke, SampleInputs, NoLogic, RunLogic, LogicError,
                ApplyOutputs
  <2>2. QED BY <1>0, <2>1 DEF EpochConsistent, SwapAtHighest
<1>9. QED
  BY <1>1, <1>2, <1>3, <1>4, <1>5, <1>6, <1>6a, <1>7, <1>8
     DEF Next, Operator, Scan, Install

(* FirstScanExact: the install raises every bit and empties done, and the  *)
(* tail of an invocation moves bit and history together.                   *)
LEMMA FirstScanStep ==
  ASSUME TypeOK, SafetyInv, [Next]_vars PROVE FirstScanExact'
<1> USE DEF modeVars, epochVars, imageVars, ioVars, histVars
<1>0. FirstScanExact BY DEF SafetyInv
<1>1. ASSUME NEW d \in InstallTimes, CommitInstall(d) PROVE FirstScanExact'
  BY <1>1 DEF CommitInstall, FirstScanExact
<1>2. ASSUME NEW ok \in BOOLEAN, NEW r \in SUBSET Outputs,
             NEW sq \in SlotQualities, ApplyOutputs(ok, r, sq)
      PROVE  FirstScanExact'
  <2>1. /\ current' = current
        /\ firstScan' = IF ranOk THEN [firstScan EXCEPT ![task] = FALSE]
                                 ELSE firstScan
        /\ done' = IF ranOk THEN done \cup {task} ELSE done
    BY <1>2 DEF ApplyOutputs, FirstScanAfter
  <2>2. QED BY <1>0, <2>1 DEF FirstScanExact, TypeOK
<1>3. ASSUME UNCHANGED <<current, firstScan, done>> PROVE FirstScanExact'
  BY <1>0, <1>3 DEF FirstScanExact
<1>4. CASE UNCHANGED vars
  BY <1>3, <1>4 DEF vars
<1>5. CASE Operator
  BY <1>3, <1>5 DEF Operator, RequestMode, Arm, Disarm, RequestActivate,
                    SetForce
<1>6. CASE \/ ModeBoundary
           \/ EndRunDue
           \/ SkipInstall
           \/ BeginInstall
           \/ \E d \in InstallTimes : FaultInstall(d) \/ DeferInstall(d)
           \/ \E t \in Tasks : PickTask(t)
           \/ \E t \in Tasks, j \in Jitter : Sleep(due[t], j)
  BY <1>3, <1>6 DEF ModeBoundary, EndRunDue, PickTask, Sleep, SkipInstall,
                    BeginInstall, FaultInstall, DeferInstall
<1>7. CASE \/ \E ok \in BOOLEAN, q \in Quality : SampleInputs(ok, q)
           \/ \E d \in Durations : NoLogic(d)
           \/ \E d \in Durations, w \in Stores :
                RunLogic(d, w) \/ LogicError(d, w)
  BY <1>3, <1>7 DEF SampleInputs, NoLogic, RunLogic, LogicError
<1>8. QED
  BY <1>1, <1>2, <1>4, <1>5, <1>6, <1>7 DEF Next, Scan, Install, Invoke

(* The watchdog: note() reports the trip in the same invocation that       *)
(* raises the count to the limit, and a count at the limit stays there     *)
(* only if this invocation overran as well.                                *)
LEMMA OverrunStep ==
  ASSUME TypeOK, SafetyInv, [Next]_vars PROVE OverrunTripsBeforeOutputs'
<1> USE DEF modeVars, epochVars, imageVars, ioVars, histVars
<1>0. OverrunTripsBeforeOutputs BY DEF SafetyInv
<1>1. ASSUME NEW d \in Durations, NEW w \in Stores, RunLogic(d, w)
      PROVE  OverrunTripsBeforeOutputs'
  <2>1. consec'[task'] = Note(d)
    BY <1>1 DEF RunLogic, TypeOK
  <2>2. Note(d) >= OverrunLimit => Trips(d)
    BY TaskAssumption DEF Note, Trips
  <2>3. Trips(d) => mode' = "FAULT"
    BY <1>1 DEF RunLogic, FaultIf
  <2>4. QED BY <2>1, <2>2, <2>3 DEF OverrunTripsBeforeOutputs
<1>2. ASSUME pc' # "out" \/ ~ranOk' PROVE OverrunTripsBeforeOutputs'
  BY <1>2 DEF OverrunTripsBeforeOutputs
<1>3. CASE UNCHANGED vars
  BY <1>0, <1>3 DEF vars, OverrunTripsBeforeOutputs
<1>4. CASE Operator
  BY <1>0, <1>4 DEF Operator, RequestMode, Arm, Disarm, RequestActivate,
                    SetForce, OverrunTripsBeforeOutputs
<1>5. CASE \/ ModeBoundary
           \/ EndRunDue
           \/ Install
           \/ \E t \in Tasks : PickTask(t)
           \/ \E t \in Tasks, j \in Jitter : Sleep(due[t], j)
  BY <1>2, <1>5 DEF ModeBoundary, EndRunDue, PickTask, Sleep, Install,
       SkipInstall, BeginInstall, FaultInstall, DeferInstall, CommitInstall
<1>6. CASE \/ \E ok \in BOOLEAN, q \in Quality : SampleInputs(ok, q)
           \/ \E d \in Durations : NoLogic(d)
           \/ \E d \in Durations, w \in Stores : LogicError(d, w)
           \/ \E ok \in BOOLEAN, r \in SUBSET Outputs, sq \in SlotQualities :
                ApplyOutputs(ok, r, sq)
  BY <1>2, <1>6 DEF SampleInputs, NoLogic, LogicError, ApplyOutputs
<1>7. QED
  BY <1>1, <1>3, <1>4, <1>5, <1>6 DEF Next, Scan, Invoke

(* Every step keeps the strengthened invariant.                            *)
LEMMA SafetyStep == TypeOK /\ SafetyInv /\ [Next]_vars => SafetyInv'
BY FaultInvStep, GateInvStep, StartupStep, EpochStep, FirstScanStep,
   OverrunStep DEF SafetyInv

(* The strengthened invariant holds in every reachable state; the safety   *)
(* properties below are parts or consequences of it.                       *)
THEOREM SafetyCorrect == Spec => []SafetyInv
<1>1. Init => SafetyInv BY SafetyInit
<1>2. TypeOK /\ SafetyInv /\ [Next]_vars => SafetyInv' BY SafetyStep
<1>3. QED BY <1>1, <1>2, TypeCorrect, PTL DEF Spec

(* In FAULT, an accepted driver write means safe_state on every output.    *)
THEOREM FaultIsSafe == Spec => []FaultHoldsSafe
<1>1. SafetyInv => FaultHoldsSafe
  BY DEF SafetyInv, FaultInv, Settled, FaultHoldsSafe, SafeOnField
<1>2. QED BY <1>1, SafetyCorrect, PTL

(* A gate that shows FAULT, or STOP under policy safe, means safe_state.   *)
THEOREM GateIsSafe == Spec => []GateHoldsSafe
<1>1. SafetyInv => GateHoldsSafe
  BY DEF SafetyInv, GateInv, GateHoldsSafe
<1>2. QED BY <1>1, SafetyCorrect, PTL

(* Nothing but safe_state reaches the field before a first logic pass.     *)
THEOREM StartupIsSafe == Spec => []StartupSafe
<1>1. SafetyInv => StartupSafe BY DEF SafetyInv
<1>2. QED BY <1>1, SafetyCorrect, PTL

(* FirstScan is one-shot per task and per install.                         *)
THEOREM FirstScanIsExact == Spec => []FirstScanExact
<1>1. SafetyInv => FirstScanExact BY DEF SafetyInv
<1>2. QED BY <1>1, SafetyCorrect, PTL

(* The watchdog trips before the outputs of the overrun are published.     *)
THEOREM OverrunIsCaught == Spec => []OverrunTripsBeforeOutputs
<1>1. SafetyInv => OverrunTripsBeforeOutputs BY DEF SafetyInv
<1>2. QED BY <1>1, SafetyCorrect, PTL

(* Phase, activate request and buffer B agree.                             *)
THEOREM EpochIsConsistent == Spec => []EpochConsistent
<1>1. SafetyInv => EpochConsistent BY DEF SafetyInv
<1>2. QED BY <1>1, SafetyCorrect, PTL
=============================================================================
