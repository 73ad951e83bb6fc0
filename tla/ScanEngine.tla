----------------------------- MODULE ScanEngine -----------------------------
(***************************************************************************)
(* The cooperative scan engine of crates/plc-scan: operator modes, the     *)
(* I -> L -> Q invocation, the software watchdog, maintenance forces, and  *)
(* the program-epoch install (KD-4a).                                      *)
(*                                                                         *)
(* One thread (plc-scan, T1) runs run_due under the Runtime mutex.  REST   *)
(* handlers take the same mutex to arm, disarm, activate and force, so     *)
(* they act only while the scan thread sleeps (pc = "sleep").  Two cells   *)
(* are shared without the mutex: the pending mode request, written at any  *)
(* moment by ScanHandle::request_mode, and the FieldGate mode mirror,      *)
(* written by the scan and read by field workers.                          *)
(*                                                                         *)
(* Time is relative: due[t] is next_due_ms - now for task t, in ticks of   *)
(* one millisecond, so that behaviours are infinite and the state finite.  *)
(* Statistics (durations, buckets, counters of rejected requests, drops)   *)
(* and the values of inputs are left out: no decision of the engine reads  *)
(* them.  `forces' and `field' are per output slot; input slots carry only *)
(* their worst quality.                                                    *)
(***************************************************************************)
EXTENDS Integers, FiniteSets

CONSTANTS
  NTasks,           \* number of cyclic tasks, numbered in schedule_order
  Period,           \* Period[t]: period_ms of task t
  OverrunLimit,     \* consecutive overruns that trip FAULT
  StopPolicy,       \* stop_output_policy: "Safe" or "HoldLast"
  FaultOnModuleBad, \* io.fault_on_module_bad
  Outputs,          \* output slots (%Q)
  Values,           \* PLC values
  Zero,             \* the value of a VM slot after a cold reset
  Safe,             \* Safe[o]: configured safe_state
  OnBadQuality,     \* OnBadQuality[o]: "ForceSafe" or "HoldLast"
  PerSlot,          \* the driver reports output quality per slot
  StoreSets,        \* sets of slots one logic invocation may ST_Q
  ForceValues,      \* values maintenance may force on an output
  OpRequests,       \* mode requests the operators send
  Programs,         \* programs (id + compatibility_hash) a package may carry
  NoProgram,        \* Option::None of a program
  NoForce,          \* no overlay on a slot
  Undriven,         \* a field output the driver has not written yet
  Durations,        \* possible durations of an invocation
  InstallTimes,     \* possible durations of an install critical section
  Jitter,           \* possible lateness of the thread's wake-up
  MaxSleep,         \* longest sleep of scan_loop (1 000 ms)
  MaxLag            \* bound: ticks a task may be late

Tasks == 1..NTasks
Highest == 1   \* schedule_order[0]: highest priority, then name

ASSUME TaskAssumption ==
  /\ NTasks \in Nat \ {0}
  /\ Period \in [Tasks -> Nat \ {0}]
  /\ OverrunLimit \in Nat \ {0}

ASSUME IoAssumption ==
  /\ Zero \in Values
  /\ Safe \in [Outputs -> Values]
  /\ OnBadQuality \in [Outputs -> {"ForceSafe", "HoldLast"}]
  /\ StopPolicy \in {"Safe", "HoldLast"}
  /\ FaultOnModuleBad \in BOOLEAN
  /\ PerSlot \in BOOLEAN
  /\ StoreSets \subseteq SUBSET Outputs
  /\ ForceValues \subseteq Values
  /\ NoForce \notin Values
  /\ Undriven \notin Values
  /\ NoProgram \notin Programs

ASSUME TimeAssumption ==
  /\ Durations \subseteq Nat
  /\ InstallTimes \subseteq Nat
  /\ Jitter \subseteq Nat
  /\ MaxSleep \in Nat
  /\ MaxLag \in Nat

Modes    == {"STOP", "RUN", "FAULT", "SIM"}
Requests == {"Stop", "Run", "Sim", "FaultReset"}
Policies == {"SafeReset", "Bumpless"}
Quality  == {"Good", "Bad"}

ASSUME RequestAssumption == OpRequests \subseteq Requests

(* Buffer B: the armed program, the restart policy left after eligibility, *)
(* and whether every keep-set copy lies inside both retain segments, which *)
(* the engine takes from its caller unchecked.                             *)
NoArm == [id |-> NoProgram, policy |-> "SafeReset", fits |-> TRUE]
ArmedBuffers == [id : Programs, policy : Policies, fits : BOOLEAN]

VARIABLES
  mode,        \* ModeCell.mode
  pending,     \* ModeCell.pending
  phase,       \* EpochHooks.phase
  activateReq, \* EpochHooks.activate_requested
  armed,       \* ScanEngine.armed
  current,     \* ScanEngine.current_id, and with it the current VM
  firstScan,   \* EpochHooks.first_scan
  hold,        \* ScanEngine.bumpless_hold
  vmOut,       \* Vm.outputs values
  imgOut,      \* ProcessImage.outputs values
  imgWritten,  \* slots of ProcessImage.outputs with written = true
  forces,      \* ForceTable
  inputQ,      \* worst quality of ProcessImage.inputs
  moduleQ,     \* ScanIo.module_quality
  firstRun,    \* ScanEngine.first_run_complete
  consec,      \* SoftwareWatchdog.consecutive
  due,         \* TaskRuntime.next_due_ms - now, per task
  gate,        \* FieldGate.mode
  field,       \* what the driver holds on the field outputs
  pc,          \* where the scan thread is in scan_loop / run_due / invoke
  task,        \* the task being invoked
  ranOk,       \* ran_logic_ok of the invocation
  applyOk,     \* history: the last apply_outputs of the driver succeeded
  done         \* history: tasks that completed logic since the install

modeVars  == <<mode, pending>>
epochVars == <<phase, activateReq, armed, current, firstScan, hold>>
imageVars == <<vmOut, imgOut, imgWritten>>
ioVars    == <<inputQ, moduleQ, gate, field>>
histVars  == <<applyOk, done>>
vars == <<modeVars, epochVars, imageVars, forces, ioVars, firstRun, consec,
          due, pc, task, ranOk, histVars>>

-----------------------------------------------------------------------------
(* The pure parts.                                                         *)

(* Definitions named Mutant... are defective variants of the definition    *)
(* that follows them; TLC must reject the engine built with them.          *)

MutantLegalStop(m, req) ==
  CASE req = "Stop"       -> TRUE
    [] req = "Run"        -> m # "FAULT"
    [] req = "Sim"        -> m \in {"STOP", "SIM"}
    [] req = "FaultReset" -> m = "FAULT"

(* mode.rs apply_request: the mode a legal request leads to.               *)
Legal(m, req) ==
  CASE req = "Stop"       -> m # "FAULT"
    [] req = "Run"        -> m # "FAULT"
    [] req = "Sim"        -> m \in {"STOP", "SIM"}
    [] req = "FaultReset" -> m = "FAULT"

Target(req) ==
  CASE req \in {"Stop", "FaultReset"} -> "STOP"
    [] req = "Run"                    -> "RUN"
    [] req = "Sim"                    -> "SIM"

ExecutesLogic(m) == m \in {"RUN", "SIM"}

NoForces == [o \in Outputs |-> NoForce]

MutantEffectiveForceFirst(o, globalSafe, q) ==
  IF forces[o] # NoForce THEN forces[o]
  ELSE IF globalSafe \/ mode = "FAULT" \/ o \notin imgWritten THEN Safe[o]
  ELSE imgOut[o]

(* force.rs resolve_effective_output, the write / force priority.          *)
Effective(o, globalSafe, q) ==
  IF globalSafe \/ mode = "FAULT"                   THEN Safe[o]
  ELSE IF forces[o] # NoForce                       THEN forces[o]
  ELSE IF q = "Bad" /\ OnBadQuality[o] = "ForceSafe" THEN Safe[o]
  ELSE IF o \in imgWritten                          THEN imgOut[o]
  ELSE Safe[o]

MutantPickAlways(t) == t = Highest

(* pick_due: the due task that comes first in schedule_order.              *)
DueTasks   == {t \in Tasks : due[t] <= 0}
PickDue(t) == t \in DueTasks /\ \A u \in DueTasks : t <= u

(* The clock moves d ticks.                                                *)
Elapse(d) == [t \in Tasks |-> due[t] - d]
WithinLag(f) == \A t \in Tasks : f[t] >= -MaxLag

MutantFaultKeepsForces(cond) ==
  /\ mode'   = IF cond THEN "FAULT" ELSE mode
  /\ forces' = forces

(* enter_fault when cond holds, on every path of an invocation.            *)
FaultIf(cond) ==
  /\ mode'   = IF cond THEN "FAULT" ELSE mode
  /\ forces' = IF cond THEN NoForces ELSE forces

-----------------------------------------------------------------------------
Init ==
  /\ mode = "STOP" /\ pending = "None"
  /\ phase = "Idle" /\ activateReq = FALSE
  /\ armed = NoArm /\ current = NoProgram
  /\ firstScan = [t \in Tasks |-> FALSE] /\ hold = FALSE
  /\ vmOut = [o \in Outputs |-> Zero]
  /\ imgOut = [o \in Outputs |-> Zero] /\ imgWritten = {}
  /\ forces = NoForces
  /\ inputQ = "Good" /\ moduleQ = "Good"
  /\ gate = "STOP" /\ field = [o \in Outputs |-> Undriven]
  /\ firstRun = FALSE
  /\ consec = [t \in Tasks |-> 0]
  /\ due = [t \in Tasks |-> 0]
  /\ pc = "sleep" /\ task = Highest /\ ranOk = FALSE
  /\ applyOk = TRUE /\ done = {}

-----------------------------------------------------------------------------
(* Other threads.                                                          *)

(* ScanHandle::request_mode: no lock, the last writer wins.                *)
RequestMode(req) ==
  /\ pending' = req
  /\ UNCHANGED <<mode, epochVars, imageVars, forces, ioVars, firstRun,
                 consec, due, pc, task, ranOk, histVars>>

(* ScanEngine::arm, called by the loader with the Runtime mutex held.      *)
Arm(p, policy, fits) ==
  /\ pc = "sleep" /\ phase # "Swapping"
  /\ armed' = [id |-> p, policy |-> policy, fits |-> fits]
  /\ phase' = "Armed" /\ activateReq' = FALSE
  /\ UNCHANGED <<modeVars, current, firstScan, hold, imageVars, forces,
                 ioVars, firstRun, consec, due, pc, task, ranOk, histVars>>

MutantDisarmKeepsRequest ==
  /\ pc = "sleep" /\ phase # "Swapping"
  /\ armed' = NoArm /\ phase' = "Idle"
  /\ UNCHANGED <<modeVars, activateReq, current, firstScan, hold, imageVars,
                 forces, ioVars, firstRun, consec, due, pc, task, ranOk,
                 histVars>>

(* ScanEngine::disarm.                                                     *)
Disarm ==
  /\ pc = "sleep" /\ phase # "Swapping"
  /\ armed' = NoArm /\ phase' = "Idle" /\ activateReq' = FALSE
  /\ UNCHANGED <<modeVars, current, firstScan, hold, imageVars, forces,
                 ioVars, firstRun, consec, due, pc, task, ranOk, histVars>>

(* ScanEngine::request_activate: pending, or a no-op that drops buffer B   *)
(* when it carries the current program.                                    *)
RequestActivate ==
  /\ pc = "sleep" /\ phase # "Swapping" /\ armed # NoArm
  /\ IF armed.id = current
       THEN armed' = NoArm /\ phase' = "Idle" /\ activateReq' = FALSE
       ELSE activateReq' = TRUE /\ UNCHANGED <<armed, phase>>
  /\ UNCHANGED <<modeVars, current, firstScan, hold, imageVars, forces,
                 ioVars, firstRun, consec, due, pc, task, ranOk, histVars>>

(* Runtime::force_tag and clear_force on a %Q slot.                        *)
SetForce(o, v) ==
  /\ pc = "sleep"
  /\ forces' = [forces EXCEPT ![o] = v]
  /\ UNCHANGED <<modeVars, epochVars, imageVars, ioVars, firstRun, consec,
                 due, pc, task, ranOk, histVars>>

-----------------------------------------------------------------------------
(* The scan thread.                                                        *)

(* scan_loop: sleep until next_wakeup_ms but at most MaxSleep, possibly    *)
(* late.                                                                   *)
NextWakeup(w) == /\ \E t \in Tasks : w = due[t]
                 /\ \A t \in Tasks : w <= due[t]
SleepTime(w)  == IF w <= 0 THEN 0 ELSE IF w <= MaxSleep THEN w ELSE MaxSleep

Sleep(w, j) ==
  /\ pc = "sleep" /\ NextWakeup(w)
  /\ WithinLag(Elapse(SleepTime(w) + j)) /\ due' = Elapse(SleepTime(w) + j)
  /\ pc' = "boundary"
  /\ UNCHANGED <<modeVars, epochVars, imageVars, forces, ioVars, firstRun,
                 consec, task, ranOk, histVars>>

MutantBoundaryKeepsRejected ==
  /\ pc = "boundary" /\ pc' = "install"
  /\ LET taken == pending # "None" /\ Legal(mode, pending)
     IN /\ mode' = IF taken THEN Target(pending) ELSE mode
        /\ pending' = IF taken THEN "None" ELSE pending
        /\ forces' = IF taken /\ Target(pending) = "STOP"
                       THEN NoForces ELSE forces
  /\ UNCHANGED <<epochVars, imageVars, ioVars, firstRun, consec, due, task,
                 ranOk, histVars>>

(* run_due, first statement: apply_mode_boundary -> ModeCell::apply_pending. *)
ModeBoundary ==
  /\ pc = "boundary" /\ pc' = "install"
  /\ pending' = "None"
  /\ LET taken == /\ pending # "None"
                  /\ phase # "Swapping"
                  /\ Legal(mode, pending)
     IN /\ mode' = IF taken THEN Target(pending) ELSE mode
        /\ forces' = IF taken /\ Target(pending) = "STOP"
                       THEN NoForces ELSE forces
  /\ UNCHANGED <<epochVars, imageVars, ioVars, firstRun, consec, due, task,
                 ranOk, histVars>>

MutantInstallDueLate == activateReq /\ armed # NoArm /\ due[Highest] < 0

(* try_epoch_install goes on only with a request, an armed buffer and the  *)
(* highest-priority task due.                                              *)
InstallDue == activateReq /\ armed # NoArm /\ due[Highest] <= 0

SkipInstall ==
  /\ pc = "install" /\ ~InstallDue /\ pc' = "pick"
  /\ UNCHANGED <<modeVars, epochVars, imageVars, forces, ioVars, firstRun,
                 consec, due, task, ranOk, histVars>>

BeginInstall ==
  /\ pc = "install" /\ InstallDue /\ pc' = "swap"
  /\ phase' = "Swapping"
  /\ UNCHANGED <<modeVars, activateReq, armed, current, firstScan, hold,
                 imageVars, forces, ioVars, firstRun, consec, due, task,
                 ranOk, histVars>>

(* blit_retain_into copies from the current VM, if there is one.           *)
BlitFails == current # NoProgram /\ ~armed.fits

(* The critical section is budgeted to the shortest task period.           *)
WithinBudget(d) == \A t \in Tasks : d < Period[t]

FaultInstall(d) ==
  /\ pc = "swap" /\ BlitFails /\ pc' = "pick"
  /\ WithinLag(Elapse(d)) /\ due' = Elapse(d)
  /\ FaultIf(TRUE)
  /\ activateReq' = FALSE /\ phase' = "Idle"
  /\ UNCHANGED <<pending, armed, current, firstScan, hold, imageVars, ioVars,
                 firstRun, consec, task, ranOk, histVars>>

DeferInstall(d) ==
  /\ pc = "swap" /\ ~BlitFails /\ ~WithinBudget(d) /\ pc' = "pick"
  /\ WithinLag(Elapse(d)) /\ due' = Elapse(d)
  /\ activateReq' = FALSE /\ phase' = "Armed"
  /\ UNCHANGED <<modeVars, armed, current, firstScan, hold, imageVars,
                 forces, ioVars, firstRun, consec, task, ranOk, histVars>>

(* commit_install: skip one due tick of the lower-priority tasks, swing    *)
(* buffer B to current, set every FirstScan bit, reset the outputs.        *)
SkipRule(f) ==
  [t \in Tasks |-> IF t # Highest /\ f[t] <= 0 THEN f[t] + Period[t] ELSE f[t]]

CommitInstall(d) ==
  /\ pc = "swap" /\ ~BlitFails /\ WithinBudget(d) /\ pc' = "pick"
  /\ WithinLag(Elapse(d)) /\ due' = SkipRule(Elapse(d))
  /\ current' = armed.id /\ armed' = NoArm
  /\ hold' = (armed.policy = "Bumpless")
  /\ vmOut' = [o \in Outputs |-> Zero]
  /\ firstScan' = [t \in Tasks |-> TRUE]
  /\ activateReq' = FALSE /\ phase' = "Idle"
  /\ IF armed.policy = "SafeReset"
       THEN imgOut' = Safe /\ imgWritten' = Outputs
       ELSE UNCHANGED <<imgOut, imgWritten>>
  /\ done' = {}
  /\ UNCHANGED <<modeVars, forces, ioVars, firstRun, consec, task, ranOk,
                 applyOk>>

(* run_due: pick the next due task, or return and release the mutex.       *)
PickTask(t) ==
  /\ pc = "pick" /\ PickDue(t)
  /\ task' = t /\ pc' = "sample"
  /\ UNCHANGED <<modeVars, epochVars, imageVars, forces, ioVars, firstRun,
                 consec, due, ranOk, histVars>>

EndRunDue ==
  /\ pc = "pick" /\ DueTasks = {} /\ pc' = "sleep"
  /\ UNCHANGED <<modeVars, epochVars, imageVars, forces, ioVars, firstRun,
                 consec, due, task, ranOk, histVars>>

(* invoke, input phase: publish_field_mode, poll_inputs, module quality.   *)
(* A failed poll leaves the image as it was, and module_quality is then    *)
(* recomputed from that image.                                             *)
SampleInputs(ok, q) ==
  /\ pc = "sample" /\ pc' = "logic"
  /\ gate' = mode
  /\ inputQ' = IF ok THEN q ELSE inputQ
  /\ moduleQ' = inputQ'
  /\ FaultIf(FaultOnModuleBad /\ (~ok \/ inputQ' = "Bad"))
  /\ UNCHANGED <<pending, epochVars, imageVars, field, firstRun, consec, due,
                 task, ranOk, histVars>>

(* SoftwareWatchdog::note.                                                 *)
Overrun(d) == d >= Period[task]
Note(d) == IF Overrun(d)
             THEN IF consec[task] < OverrunLimit THEN consec[task] + 1
                                                 ELSE consec[task]
             ELSE 0
MutantTripsNextTime(d) == Overrun(d) /\ consec[task] >= OverrunLimit
Trips(d) == Overrun(d) /\ Note(d) >= OverrunLimit

(* invoke, logic phase in STOP or FAULT: no logic, no watchdog.            *)
NoLogic(d) ==
  /\ pc = "logic" /\ ~ExecutesLogic(mode) /\ pc' = "out"
  /\ WithinLag(Elapse(d)) /\ due' = Elapse(d)
  /\ ranOk' = FALSE
  /\ UNCHANGED <<modeVars, epochVars, imageVars, forces, ioVars, firstRun,
                 consec, task, histVars>>

(* invoke, logic phase: run_logic to HALT.  The entry ST_Qs the slots of   *)
(* DOMAIN w; the VM image is copied to %Q, except that bumpless_hold       *)
(* leaves the slots this invocation did not store.                         *)
RunLogic(d, w) ==
  /\ pc = "logic" /\ ExecutesLogic(mode) /\ current # NoProgram /\ pc' = "out"
  /\ WithinLag(Elapse(d)) /\ due' = Elapse(d)
  /\ vmOut' = [o \in Outputs |-> IF o \in DOMAIN w THEN w[o] ELSE vmOut[o]]
  /\ LET copied == IF hold THEN DOMAIN w ELSE Outputs
     IN /\ imgOut' = [o \in Outputs |-> IF o \in copied THEN vmOut'[o]
                                                        ELSE imgOut[o]]
        /\ imgWritten' = imgWritten \cup copied
  /\ ranOk' = TRUE
  /\ consec' = [consec EXCEPT ![task] = Note(d)]
  /\ FaultIf(Trips(d))
  /\ UNCHANGED <<pending, epochVars, ioVars, firstRun, task, histVars>>

(* invoke, logic phase: run_logic fails (no program, or a VM error after   *)
(* some stores) and the engine enters FAULT.                               *)
LogicError(d, w) ==
  /\ pc = "logic" /\ ExecutesLogic(mode) /\ pc' = "out"
  /\ current = NoProgram => DOMAIN w = {}
  /\ WithinLag(Elapse(d)) /\ due' = Elapse(d)
  /\ vmOut' = [o \in Outputs |-> IF o \in DOMAIN w THEN w[o] ELSE vmOut[o]]
  /\ ranOk' = FALSE
  /\ consec' = [consec EXCEPT ![task] = Note(d)]
  /\ FaultIf(TRUE)
  /\ UNCHANGED <<pending, epochVars, imgOut, imgWritten, ioVars, firstRun,
                 task, histVars>>

(* invoke, output phase and tail.  The driver takes the whole image, or    *)
(* fails with the slots of `reached' written.  sq is the quality of each   *)
(* output's module.                                                        *)
MutantGlobalSafeNoStop    == mode = "FAULT" \/ (~firstRun /\ ~ranOk)
MutantGlobalSafeNoStartup ==
  mode = "FAULT" \/ (mode = "STOP" /\ StopPolicy = "Safe")

GlobalSafe ==
  \/ mode = "FAULT"
  \/ mode = "STOP" /\ StopPolicy = "Safe"
  \/ ~firstRun /\ ~ranOk

MutantFirstScanAnyTick == [firstScan EXCEPT ![task] = FALSE]

(* FirstScan clears only after logic ran to HALT, not on a STOP tick.      *)
FirstScanAfter ==
  IF ranOk THEN [firstScan EXCEPT ![task] = FALSE] ELSE firstScan

MutantRescheduleRan == IF ranOk THEN [due EXCEPT ![task] = @ + Period[task]]
                                ELSE due

Reschedule == [due EXCEPT ![task] = @ + Period[task]]

SlotQualities == IF PerSlot THEN [Outputs -> Quality]
                            ELSE {[o \in Outputs |-> moduleQ]}

ApplyOutputs(ok, reached, sq) ==
  /\ pc = "out" /\ pc' = "install"
  /\ gate' = mode
  /\ field' = [o \in Outputs |-> IF o \in reached
                                   THEN Effective(o, GlobalSafe, sq[o])
                                   ELSE field[o]]
  /\ applyOk' = ok
  /\ moduleQ' = IF ok THEN moduleQ ELSE "Bad"
  /\ FaultIf(~ok /\ FaultOnModuleBad)
  /\ firstRun' = (firstRun \/ ranOk)
  /\ firstScan' = FirstScanAfter
  /\ done' = IF ranOk THEN done \cup {task} ELSE done
  /\ due' = Reschedule
  /\ task' = Highest /\ ranOk' = FALSE
  /\ UNCHANGED <<pending, phase, activateReq, armed, current, hold, imageVars,
                 inputQ, consec>>

-----------------------------------------------------------------------------
Stores == UNION {[w -> Values] : w \in StoreSets}

Operator ==
  \/ \E req \in OpRequests : RequestMode(req)
  \/ \E p \in Programs, pol \in Policies, fits \in BOOLEAN :
       Arm(p, pol, fits)
  \/ Disarm
  \/ RequestActivate
  \/ \E o \in Outputs, v \in ForceValues \cup {NoForce} : SetForce(o, v)

Install ==
  \/ SkipInstall
  \/ BeginInstall
  \/ \E d \in InstallTimes : FaultInstall(d)
  \/ \E d \in InstallTimes : DeferInstall(d)
  \/ \E d \in InstallTimes : CommitInstall(d)

Invoke ==
  \/ \E ok \in BOOLEAN, q \in Quality : SampleInputs(ok, q)
  \/ \E d \in Durations : NoLogic(d)
  \/ \E d \in Durations, w \in Stores : RunLogic(d, w)
  \/ \E d \in Durations, w \in Stores : LogicError(d, w)
  \/ \E sq \in SlotQualities : ApplyOutputs(TRUE, Outputs, sq)
  \/ \E sq \in SlotQualities, r \in SUBSET Outputs : ApplyOutputs(FALSE, r, sq)

Scan ==
  \/ \E t \in Tasks, j \in Jitter : Sleep(due[t], j)
  \/ ModeBoundary
  \/ Install
  \/ \E t \in Tasks : PickTask(t)
  \/ EndRunDue
  \/ Invoke

Next == Operator \/ Scan

Spec == Init /\ [][Next]_vars

(* The scan thread is never parked: every step of scan_loop is followed by *)
(* the next one.  Operators are free to do nothing.                        *)
FairSpec == Spec /\ WF_vars(Scan)

-----------------------------------------------------------------------------
(* Properties.                                                             *)

(* The type invariant: every variable in its range; a task is never more   *)
(* than one period ahead of its schedule and never invoked before it is    *)
(* due.                                                                    *)
Phases == {"Idle", "Armed", "Swapping"}
Pcs    == {"sleep", "boundary", "install", "swap", "pick", "sample", "logic",
           "out"}

TypeOK ==
  /\ mode \in Modes /\ gate \in Modes
  /\ pending \in Requests \cup {"None"}
  /\ phase \in Phases /\ activateReq \in BOOLEAN
  /\ armed \in ArmedBuffers \cup {NoArm}
  /\ current \in Programs \cup {NoProgram}
  /\ firstScan \in [Tasks -> BOOLEAN] /\ hold \in BOOLEAN
  /\ vmOut \in [Outputs -> Values] /\ imgOut \in [Outputs -> Values]
  /\ imgWritten \subseteq Outputs
  /\ forces \in [Outputs -> Values \cup {NoForce}]
  /\ inputQ \in Quality /\ moduleQ \in Quality
  /\ firstRun \in BOOLEAN
  /\ consec \in [Tasks -> 0..OverrunLimit]
  /\ due \in [Tasks -> Int]
  /\ \A t \in Tasks : due[t] \in -MaxLag..Period[t]
  /\ field \in [Outputs -> Values \cup {Undriven}]
  /\ pc \in Pcs /\ task \in Tasks /\ ranOk \in BOOLEAN
  /\ pc \in {"sample", "logic", "out"} => due[task] <= 0
  /\ applyOk \in BOOLEAN /\ done \subseteq Tasks

SafeOnField == field = Safe

(* Whoever sees FAULT while the scan thread sleeps finds safe_state on     *)
(* every field output, unless the driver refused the last write: no path   *)
(* into FAULT (VM error, watchdog, bad module, failed install), no force   *)
(* set afterwards and no install during FAULT drives anything else.        *)
FaultHoldsSafe ==
  pc = "sleep" /\ mode = "FAULT" /\ applyOk => SafeOnField

(* The mode mirror that field workers read agrees with the field: when the *)
(* gate shows STOP under stop_output_policy safe, or FAULT, the last image *)
(* handed to the driver is safe_state.                                     *)
GateHoldsSafe ==
  /\ pc = "sleep" /\ applyOk
  /\ gate = "FAULT" \/ (gate = "STOP" /\ StopPolicy = "Safe")
  => \A o \in Outputs : field[o] \in {Undriven, Safe[o]}

(* Until one logic invocation of some program has completed, nothing but   *)
(* safe_state reaches the field: neither a force nor a partly executed     *)
(* program nor a mode switched back and forth gets past the startup hold.  *)
StartupSafe ==
  ~firstRun => \A o \in Outputs : field[o] \in {Undriven, Safe[o]}

(* FirstScan is one-shot per task and per install: the bit is up exactly   *)
(* until the task has completed logic once, whatever STOP ticks, faults,   *)
(* deferred installs and lower-priority skips happen in between.           *)
FirstScanExact ==
  current # NoProgram => \A t \in Tasks : firstScan[t] <=> t \notin done

(* The invocation that reaches the overrun limit never gets its outputs    *)
(* out: the engine is already in FAULT when the output phase starts.       *)
OverrunTripsBeforeOutputs ==
  pc = "out" /\ ranOk /\ consec[task] >= OverrunLimit => mode = "FAULT"

(* An activate request always has a buffer B to install, and the phase     *)
(* reads Swapping exactly inside the install critical section.             *)
EpochConsistent ==
  /\ activateReq => armed # NoArm
  /\ phase = "Armed" => armed # NoArm
  /\ phase = "Swapping" <=> pc = "swap"

(* FAULT is latched: only a boundary that takes FAULT_RESET leaves it, and *)
(* it leads to STOP.                                                       *)
FaultLatched ==
  [][mode = "FAULT" /\ mode' # "FAULT" =>
       mode' = "STOP" /\ pending = "FaultReset" /\ pc = "boundary"]_vars

(* Every entry into STOP or FAULT, on whatever path, drops all forces.     *)
ForcesCleared ==
  [][mode' \in {"STOP", "FAULT"} /\ mode' # mode => forces' = NoForces]_vars

(* A request to activate is settled: installed, deferred or failed, also   *)
(* when run_due never gets to the end of its loop.                         *)
ActivateSettles == activateReq ~> ~activateReq

(* A mode request is taken or rejected at an invocation boundary.          *)
PendingObserved == pending # "None" ~> pending = "None"

(* No task is starved by the cooperative schedule.                         *)
EveryTaskRuns == \A t \in Tasks : []<>(pc = "logic" /\ task = t)

(* A driver that reports a failed poll degrades the module quality that    *)
(* the following output phase goes by.                                     *)
PollErrorIsBad ==
  [][\A q \in Quality : SampleInputs(FALSE, q) => moduleQ' = "Bad"]_vars

(* An output no program stores is driven with safe_state (or a force).     *)
NeverWrittenIsSafe ==
  \A o \in Outputs \ UNION StoreSets :
    field[o] \in {Undriven, Safe[o]} \cup ForceValues
=============================================================================
