# Formal model of the soft-PLC runtime

TLA+ specifications of the runtime of `my-soft-plc`, the TLC configurations that
check them on small instances, and TLAPS proofs of the main safety properties for
every value of the parameters. Paths are relative to the repository.

## The system

A soft PLC runs a compiled control program cyclically: sample the inputs, run the
logic of the task that is due, drive the outputs (I → L → Q). Around that loop there
are REST handlers, field-bus workers, a telemetry publisher and a task that saves
retained variables to disk.

| Part | State it keeps | Operations | Interaction |
| --- | --- | --- | --- |
| Scan engine (`crates/plc-scan`) | mode and pending request, epoch phase, armed and current program, FirstScan bits, process image, forces, watchdog counters, schedule | `run_due` (boundary, install, invoke), `arm`, `disarm`, `request_activate` | owned by `Runtime` behind a mutex; the mode request, the epoch hooks and the field gate are atomics shared without it |
| Output resolution (`crates/plc-io/src/force.rs`) | force table | `resolve_effective_output`, set, clear | called by the output phase; forces set by REST |
| Program loader (`crates/plc-runtime/src/loader.rs`) | current and armed layout, info and tags; retain snapshot | `begin_arm` / `prepare_arm` / `commit_arm` / `abort_arm`, `disarm`, `activate`, `run_due` | scan thread and REST handlers, one mutex; prepare runs without it |
| REST API (`crates/plc-api`) | arm lock, program store, pointer files, audit log, force limit, events | one handler per route | calls the loader; writes the package store and the pointers |
| Supervisor (`crates/soft-plc-runtime`) | stop flag, scan thread handle | boot, restore, follow current program, shutdown | starts the scan thread, T5 and the API |
| Retain (`crates/plc-retain`) | slot files and index per program, snapshot buffer | `flush`, `load`, `map_retain`, `publish`, `read` | scan publishes, T5 and shutdown flush |
| Field drivers (`plc-io-modbus`, `plc-io-gpio`, `plc-io-sim`, `io_route.rs`) | worker images, staleness, gate | `poll_inputs`, `apply_outputs` | called by the scan, workers on their own threads |
| Telemetry (`crates/plc-telemetry`, `plc-scan/src/spsc.rs`) | ring, session, catalog | publish, drain, reconnect | fed by the scan |
| Auth (`crates/plc-auth`) | lockout and rate counters | authenticate, lock, refill | called by the API |
| VM, verifier, primitives (`plc-vm`, `plc-ir`, `plc-fb-primitives`) | stack, memory, FB state | one per opcode / block | run by the logic phase |
| Compiler, package, config | none at run time | batch conversions | produce what the runtime loads |

What is hard: the scan shares atomics with handlers that do not take its mutex; a
program swap happens between two invocations and may be deferred or fail; FAULT can
be entered at four places of an invocation; the retain files must survive a power cut
at any instruction, an I/O error, and two threads that flush at once; the arm works
from a snapshot taken before a lock was released; the Modbus worker and the scan exchange
values through two buffers while connections break and answers come late; messages are
dropped at two full queues between the scan and the broker; a rotation of the audit log
is a chain of renames; the compiler lays variables, block instances and temporaries out
in one byte segment that the verifier only sees as offsets.

What makes each part correct:

* engine: FAULT and STOP hold the safe state on the field, FAULT is latched, forces do
  not outlive a stop, nothing is driven before the first complete logic pass, the
  watchdog trips before the outputs it condemns, FirstScan is exact per task and
  install, an activation settles, no task starves;
* retain: an acknowledged image survives every power cut, a restart never goes back
  behind what an earlier restart loaded;
* loader and API: an armed program was prepared against the program it will replace, a
  swap keeps what the old program wrote last, an accepted activation is not diverted,
  boot follows a program that has run;
* field drivers: what is sampled as Good is one consistent poll, nobody else's registers
  are written, a stop ends with the safe state in the devices;
* compiler, verifier, VM and blocks: a scan computes what the source means, verified code
  does not fail on what was verified;
* telemetry: no sample is lost uncounted, a host that sees no gap has the right values;
* audit log: an acknowledged row survives errors and crashes until its segment retires.

## Modules

### ScanEngine

One module for the engine, since mode, epoch, watchdog and outputs meet in one
function. The scan thread is a program counter (`pc`) through `scan_loop`
(`Sleep`), `apply_mode_boundary` (`ModeBoundary`), `try_epoch_install`
(`SkipInstall`, `BeginInstall`, `FaultInstall`, `DeferInstall`, `CommitInstall`),
`pick_due` (`PickTask`, `EndRunDue`) and the three phases of `invoke`
(`SampleInputs`; `NoLogic`, `RunLogic` or `LogicError`; `ApplyOutputs`). Handlers that
hold the mutex (`Arm`, `Disarm`, `RequestActivate`, `SetForce`) act at
`pc = "sleep"`; `RequestMode` acts at any moment.

Time is relative: `due[t]` is `next_due_ms - now`. Durations are chosen from small
sets, so overruns, missed install deadlines and late wake-ups happen. Data is
abstracted to what the decisions read: output values per slot, the worst input
quality, the set of slots a logic pass stores. `field` is what the driver was last
given; a failing driver may have applied any part of the image. `armed.fits` says
whether the keep-set copies lie inside both retain segments: the engine does not
check its caller. `applyOk` and `done` are history variables used only by properties.

### RetainStore and RetainRegister

`RetainStore` is the A/B store on a file system: each file has the contents readers
see and the contents on the medium, `write_all_sync` is open-with-truncation, write
and sync, and a power cut leaves of an unsynced file the old bytes, torn bytes or the
new bytes, and may drop a file whose directory entry was not synced. Torn stands for
whatever fails `decode_slot` / `decode_idx`. `IoErrors` names the system calls that may
fail (all of them in the run and in the proofs) and `EntrySync` whether syncing a file makes its directory entry durable (ext4
and xfs do so, POSIX does not promise it). `RetainRegister` is what the store promises:
the set of images a restart may load only ever gains an image being flushed, and a
flush that returns Ok leaves its image alone in the set. The refinement mapping takes
as that set what `Load` returns over all contents a power cut may leave. A flush whose
slot sync, index write or index sync fails (`Harmful`) can leave an index or slot that
makes the next flush overwrite the acknowledged image: from there (`harmed`, the
register's `sound`) until the next flush that returns Ok nothing is promised. The history
variable withdraws the guarantee no longer than that, and errors of the other steps do not
touch it.

### RetainFlow

The way of a retained value from the VM to the store and back, over several programs:
`Logic` raises the dirty signal when a pass that stored has run to HALT; `EndRun` is
the tail of `Runtime::run_due` under the same lock (`sync_layouts_after_step`,
`resize_retain_snapshot`, `publish_retain_if_dirty`); T5 is `Take` / `LastTake`, `Read`
(with the mutex) and `Flush` (without); `Shutdown` and `Join` are
`Supervisor::shutdown`; `Restart` is a power cut or an exit followed by
`install_package`, which nothing can interleave with because the API is not served yet
and the mode is STOP. An image is the layout its bytes were written in and the number
of the last store it contains. `seq`, `last_take` and `last_retain_seq` are kept as the
comparisons the code makes with them (`fresh`, `unpub`, `everDirty`). A pass that
stored and failed leaves the VM dirty, and the next one that completes notifies for it
(`LogicAfterError`). `notified`, `twin` and `aliased` are history variables: the last store
notified for the program that runs, whether it was installed over one of the same retain
size, and which programs ever were. A flush is one step here; `RetainStore` opens it up.

### HotSwap

The life of a program: the package store (`program_store.rs`: two files per package, two
pointer files), the handlers `upload`, `delete`, `arm` and `activate` with the task that
waits for the swap (`routes/programs.rs`), `begin_arm` / `prepare_arm` / `commit_arm` /
`abort_arm` and `sync_layouts_after_step` (`loader.rs`), the install with the second copy
of retained values (`Install`), the supervisor's `follow_current_program` and the boot
(`Restore`, `WaitCurrent`). A step is what the code does under one acquisition of the
runtime mutex or one file operation. A package is its id, hash, bumpless flag and
retained symbols with their types; a package that does not validate is one whose
`refused` says why. `map_retain` is `RetainCopies` and `ResolveRestart`: kept symbols may
move to another offset, a changed type refuses the arm. The module abstracts what
`ScanEngine` details (tasks, modes): whether an install misses its deadline, drops the
request and leaves B armed is a choice. `was` and `count` are a history variable and the bounds.

### Primitives, Bytecode, VerifiedVm, Parser, Compiler, SourceSemantics, Program

`Parser` is `parse.rs` over a sequence of tokens, `Compiler` is `bind.rs` (binding,
layout, lowering) from the syntax tree to instructions, `Bytecode` the values, the
memory, what the verifier checks of one instruction (`Pops`, `Pushes`, `OperandOk`,
`Successors`) and what the VM does with it (`Execute`). A module's code is what `decode_instruction`
finds at each word address, also at the operand words of wide instructions, so a jump may
land there as in the code. `Primitives` the native blocks and
their dispatch. They are pure. `VerifiedVm` is verifier and VM as a state machine over any
module: `NextEntry` and `Visit` are one pass of the loops of `verify_module` and
`verify_entry`, with the worklist and the stack of types first met at each address (`seen`,
which the code drops and the model keeps), then `LoadVerified`, `BeginRun`, `RunStep` (one
pass of the loop of `run_at`) and `ResetVm`; `marks` is a history variable with the entry
and the height of the stack of each body that runs. `Program` puts the parser and the
compiler in front and gives the runs their inputs: `ParseSource`, `CompileLoaded`,
`Verify`, `LoadModule`, `BeginScan` (inputs, qualities and elapsed time are chosen), `Step`
and `ColdStart`. The module is verified once, after it was compiled; `Vm::load` verifies
the same module again. `SourceSemantics` is not translated from the code: it is the
reference, an evaluator of the syntax tree that knows nothing of layout, stack or jumps.
A byte has four values, so that INT, with two bytes, and DINT overflow on small numbers;
REAL is an integer. LINT is there for `CONV`, loads and the verifier's types; no source
type is lowered to it. `bind.rs:1465` and `1490` walk the named arguments of a block call
in the order of a hash map, which the model chooses as source order or its reverse. An
argument that reads a field of the instance it is passed to would depend on it; the
projects have none. The reference shares only the
values and their operators with `Bytecode`, and the native blocks. It also writes the
tokens of a tree with the fewest brackets, which is what `ParseRoundTrip` compares. Its
ranks of the operators are those of `parse.rs:706-736`, with XOR over AND, which IEC 61131-3
ranks the other way: the round trip shows that the parser keeps to its own ranks, not that
they are the standard's.

### IoMap and FieldIo

`IoMap` is the planning of an io-map: bindings, defaults, slots, register types, overlap
checks and the request groups of the Modbus driver, with conversion and scaling of values.
The loops of `resolve` and `validate_module` are split in two: what they compute
(`SlotsOf`, `ModbusPoints`, `LineBits`) and whether any of their checks refuses the map
(`ResolveOk`, `ModbusOk`, `GpioOk`); which refusal is reported is left out. A register has two
bits and a table five registers (9999 in the code). `FieldIo` puts the plan to work: `RoutedDriver` with the
simulation driver, the Modbus bridge, its worker thread and the GPIO modules; devices and
wires are external. The worker is a program counter through `worker_loop` and
`ModRt::poll` (connect, read requests, publish, mark, gate, mailbox, write requests),
every transaction may be answered, lost before or after it was executed, or answered
with an answer of an earlier transaction. The scan is one through `poll_inputs`, the
engine's logic and `apply_outputs`, so that it meets the worker between copying the front
buffer and asking for the quality. Ages of the last good poll are counted up to the
staleness limit. Drivers' counters are left out.

### Telemetry

`publish_telemetry` of the scan, the drop-oldest ring, and the service's worker:
connecting with a will, an attempt dropped before its CONNACK by the 10 ms timer
(`TimerBeforeBirth`) or by a catalog, since `select!` then drops `poll()` with the attempt
inside, births, `select!` over the event loop, catalogs and the drain,
`NDATA`, `DDATA`, deaths and rebirths, and the client's bounded request queue. The
broker keeps the will; the host of the module follows the Sparkplug rules (`Deliver`): it
asks for a rebirth when a number is missing. Both are external. Sequence numbers count
modulo 4, one counter (`telemetry_drops`) stands for all metrics of the node, values are
two. `hist` records what was taken from the ring, which births were sent and what was
lost at the full client.

### AuditLog

`AuditLog` is `audit_log.rs`: files `audit.jsonl`, `.1` to `.n` and the two temporary
names of a rotation as numbers, `append` with its check, rotation, write and sync,
`abort_rotate`, `rewind_to`, `recover_incomplete_rotate`, `repair_torn_tail` and `page`. One
step is one file operation; it may fail, and the process may die after any. A row has
size one and is complete, torn, or lacks its newline. At most one operation of a
call fails, clean-up operations do not; a crash keeps the order of the operations, so
power loss, against which the code does not sync every rename, is not modelled; `page`
reads while the log is between two calls.

## Runs

| Run | Instance | Shows |
| --- | --- | --- |
| `engine_io` | one task, one output, two values, policy safe, overrun limit 2 | `FaultHoldsSafe`, `GateHoldsSafe`, `FaultLatched`, `ForcesCleared` over every mode, force, poll and driver outcome |
| `engine_swap` | two tasks (periods 2 and 4), two programs, install times inside and past the deadline, policy hold_last | the startup hold wins over hold_last, the watchdog trips before the outputs, FirstScan exact, no dangling activate request, phase equals critical section |
| `engine_live` | two tasks, durations that fit, fair scan thread | activations and mode requests settle, every task runs again and again |
| `retain_store` | one flusher, six flushes, power cut at every step, I/O errors of every step | acknowledged images survive unless the flush after them failed harmfully; refinement of `RetainRegister` |
| `retain_flow` | two programs of equal retain size, one of another and one without retained variables, two stores, three swaps, restarts or errors, fair scan and flushers | images are filed under the program they belong to, or under one of equal size that replaced it (`OwnImages`); while no flush fails a completed store reaches the disk and a graceful shutdown leaves an image, also after a swap, except one between equal sizes with no store since |
| `hot_swap` | three packages (one moves a kept symbol, one changes its type), two handlers, three requests, one write, one crash | what is armed fits the program it replaces (`ArmedFitsCurrent`); the loader's records agree with the engine (`InfoMatchesEngine`); a swap carries the last values and never faults (`RetainCarried`); only the boundary, by an install or a deferral, takes a pending request away (`PendingKept`); the boot pointer names a program that ran (`PointerHasRun`); validating ends (`ValidatingEnds`) |
| `program` | 2,160 generated assignments, six hand-written projects and one with a retained block field that is compiled and verified only, two to five scans, gaps of 1, 2 and 4 time units, bad qualities, a cold start | the parser returns the tree (`ParseRoundTrip`); verified code keeps to the verified stack (`StackSafe`); scans agree with the source (`ScanMatchesSource`); variables do not overlap in their segment, nor fields in their block (`SymbolsDisjoint`); blocks follow the history of their inputs (`PrimitivesFollowSamples`) |
| `field_io` | a device with two input requests, one with a coil and a register bit, two devices behind one worker, three GPIO modules, 64 maps of three bindings for the planning; one fault and up to three changes each | Good samples are one poll (`GoodIsWhole`); other registers and bits are left alone (`NeighboursKept`); GPIO lines rest at safe_state (`LinesRestSafe`); a lasting STOP reaches the devices (`StopReachesField`); stopping ends (`StopEnds`) |
| `telemetry` | an analog and a BOOL slot, three catalogs, ring of 2, client queue of 3, two scans, one change, one failure | `telemetry_drops` is honest (`NoSilentLoss`); a gapless host is right (`GaplessIsCurrent`); sessions have their own bdSeq and will (`SessionsNumbered`); the node comes online however many attempts were dropped, if the broker is in time now and then (`ComesOnline`) |
| `audit_log` | three files of two rows, nine events, three failures, three crashes | the handle stays on a clean file (`TypeOK`); pages are complete and in order (`PagesInOrder`); acknowledged rows are kept (`AckedKept`) |

Two runs state what the documentation says and find the code to differ:

| Run | Claim | What happens |
| --- | --- | --- |
| `fb_bounds` | LD/ST offsets within segment sizes (`architecture.md:1306`) | the temporaries of a block's body lie behind the program's variables and are addressed relative to the instance; the verifier checks the offset without the base and the VM faults |
| `sim_leak` | SIM: no field writes (`architecture.md:369`) | outputs computed in SIM wait in the mailbox; the worker sends them when the gate has left SIM |

Twelve more configurations, kept beside the runs, end in a counterexample of the same
kind when they are given to TLC with the MC module of their component:

| Configuration | Claim | What happens |
| --- | --- | --- |
| `engine_overload.cfg` | a mode request is observed at the next invocation boundary (`mode.rs:190`) | `run_due` applies the boundary once; with invocations as long as the period its loop never ends |
| `engine_poll.cfg` | degraded I/O sets module quality (`architecture.md:351`) | the Bad of a failed poll is overwritten by the stale image's quality |
| `engine_unwritten.cfg` | never written → safe_state (`architecture.md:620`) | `run_logic` marks every output as written |
| `retain_idx_error.cfg` | only what was not synced is lost (`architecture.md:666`) | `committed()` trusts an index that names a torn slot and the only good slot is overwritten |
| `retain_shutdown.cfg` | graceful shutdown: one extra flush (`store.rs:97`) | T5 and shutdown flush at once and the older image is committed |
| `flow_owner.cfg` | warm start restores retain (`architecture.md:662`) | a swap between programs of equal retain size keeps the buffer; the old program's bytes are written under the new one's id |
| `flow_takeover.cfg` | graceful shutdown: one extra flush (`store.rs:97`) | after the same swap `last_retain_seq` stays too; what the new program took over is not published, and shutdown saves nothing for it |
| `fb_retain.cfg` | a block declares `VAR_RETAIN` (`architecture.md:540`) | a block's retained fields are laid out from retain offset 0 (`bind.rs:598`, `641-650`), over the program's own (`bind.rs:888`); the body's LD_RETAIN and ST_RETAIN add the instance's data base, and the fields are not in the manifest |
| `telemetry_slow.cfg` | subscribe and births run after a successful CONNACK (`service.rs:115`) | TCP connect and CONNACK have to fit in the 10 ms of one `poll()`; a slower broker never gets a session (`SlowSpec`) |
| `flow_error.cfg` | dirty: T5 flushes; shutdown: one extra flush (`store.rs:97`) | a snapshot counts as taken before it is written; after one I/O error nothing retries it |
| `swap_follow.cfg` | pointers and catalog follow the current program (`supervisor.rs:371`) | the follower and a handler read the runtime and write the pointer files without a common lock; the older reader may write last and nothing repeats the write |
| `swap_delete.cfg` | cannot delete the current program (`routes/programs.rs:109`) | `delete` checks under the mutex and removes without it; an arm that has read the package in between installs a program that is no longer stored |

### Met while modelling

No run of their own, for later work on the code:

* engine: `bumpless_hold` is set by `commit_install` and cleared only by the next install,
  although `engine.rs:230` says until each task's first scan ends.
* retain: on a file system that does not make a new file's directory entry durable with
  the file (`EntrySync = FALSE`) `AckedSurvives` fails, because the directory is synced after
  the index names the new slot; values restored at boot and carried over by a swap are
  published for the new program only once a pass stores (`loader.rs:671`).
* compiler and VM: stores are not typed (`bind.rs:1576`), so a variable takes the type of
  what was assigned; an unset DINT reads as BOOL FALSE and initial values of variables are
  ignored, so the first arithmetic on it is a type fault; FOR with a negative BY never
  runs; assignment to an array element is always rejected; a nested block is called with
  id 0 when its body has not been emitted yet; the verifier counts user-block calls in
  sequence as depth (`verify.rs:322`) and gives CV of the counters the type TIME; MIN / -1 on
  DINT panics (`exec.rs:738`).
* field I/O: the scan copies the snapshot before it asks for the quality, so a stale
  snapshot is sampled Good when a poll succeeds in between (`driver.rs:217`), which
  `GoodIsWhole` allows: it is an older whole poll; one worker serves all modules, so one
  timeout delays the others; a register bit is written by read-modify-write and two
  bits of one register are refused as an overlap.
* telemetry: a slot counts as published although the push was dropped, so a lost BOOL is
  not sent again until it changes; node metrics count as sent before the client took the
  message; a birth dropped at the full client restarts the numbers, after which a
  loss cannot be seen, as with 256 losses in a row: `GaplessIsCurrent` names both as
  exceptions; the drain timer starts anew in every turn of `select!`, so a busy event loop
  delays it.
* audit log: while a rotation keeps failing after its shift, each record drops one old
  segment; a row that lacks only its newline can be read and is cut off later; `commit_line`
  returns Ok after a failed sync when the bytes read back.

### Bounds

A period of 2 ticks and durations 0 and 2 (0 and 1 in `engine_live`) give
in-time, exact and late invocations; install times 0 and 2 fall inside and past the
deadline. `MaxLag` (2 ticks; 5 in `engine_live`) cuts behaviours in which a task falls
further behind, and is large enough that the overrun limit is reached and the skip rule
applies to a late task. One output and two values suffice where slots do not interact;
safe_state differs from the VM's zero. In `engine_swap` every pass stores its output, in
`engine_io` any subset. Six flushes alternate each slot three times, so a
crash, an error and a later reuse of the same slot fit in one behaviour. Two stores give
an older and a newer snapshot in flight at once; four programs give a swap to an equal, a
larger, a smaller and no retain segment, and three changes (swaps, restarts, failing
flushes) give a swap there and back and one event besides. Three requests on two handlers are an arm, an activation
and one request between any two of their steps; a program that was armed before the write
and installed after it shows a stale copy. Expressions with two operators tell every pair
of precedences and every short circuit apart; blocks with
temporaries, nested instances or retained fields are compiled and verified in `fb_bounds`
and `fb_retain.cfg` but not compared with the source; five scans with gaps below, at and above
what is left of PT let each timer start, expire and restart. One fault per device puts it at
any request of a poll; the two changes are into SIM or STOP and back. A ring of 2
overflows with two slots published twice, a queue of 3 holds a birth pair and one
message and overflows with the next. Three files of two rows rotate three times in nine
events, so that a failure, a crash and a later rotation meet.

`CHECK_DEADLOCK FALSE` is set where behaviours end by a bound (`retain_store`, `hot_swap`,
`program`, `audit_log`), by the exit of the process (`retain_flow`) or by a driver that was stopped (`field_io`).

### Fairness

`FairSpec` is weak fairness of the scan thread's steps: `scan_loop` is a
plain loop with bounded sleeps on a dedicated thread. Nothing is assumed of operators.
In `RetainFlow` `run_due` ends, T5 polls every 50 ms, and a flusher that wants the mutex
gets it: strong fairness, because `scan_loop` sleeps at least 200 µs without it in every
turn. A flush that is tried again and again succeeds in the end, which makes
`flow_error` the stronger: it is not tried again. In `HotSwap` tasks in progress and the
scan thread go on; requests, writes and crashes need not happen. In `FieldIo` the worker
and the scan go on, and each module comes due again and again (strong fairness, since
the worker turns to the module that is due); the network owes nothing but that its faults
are finite. In `Telemetry` the worker goes on and a broker that can be reached
accepts; of the attempts it accepts again and again one is answered before the 10 ms timer
drops it (strong fairness of `OnConnected`: a property of the network that the code does
not ensure, see `telemetry_slow.cfg`); and a queued request is sent in the end because `select!` polls the client's
event loop between two drains.

## Proofs

`ScanEngineProofs` proves, for any number of tasks, periods, outputs, values and
bounds that satisfy the named assumptions of `ScanEngine`:

* `TypeCorrect`: `Spec => []TypeOK`, including the schedule bounds;
* `FaultIsLatched` and `ForcesAreCleared`, the two action properties;
* `SafetyCorrect`: `Spec => []SafetyInv`, from which `FaultIsSafe`, `GateIsSafe`,
  `StartupIsSafe`, `FirstScanIsExact`, `OverrunIsCaught` and `EpochIsConsistent` follow.

`FaultHoldsSafe` and `GateHoldsSafe` speak of the moments when the mutex is free and are
not inductive: inside an invocation the mode is already FAULT while the field is not
yet safe. The strengthening says what holds at each `pc`: from the boundary on, a FAULT
that was there before still has safe outputs; after `SampleInputs` and the logic phase
the debt is paid by `ApplyOutputs` of the same invocation; an install that fails happens
only with the highest-priority task due, so an invocation follows before the mutex is
released (`SwapAtHighest`). The gate needs the same with the gate's mode. TLC checked the
strengthened invariant before it was proved.

`RetainFlowProofs` proves `ImagesAreOwn` (`Spec => []OwnImages`) for any set of programs,
of equal sizes or not, and any number of stores, swaps, errors and restarts. What
`OwnImages` excepts, and only that, is what the code does at `loader.rs:662`: the image of
a program of the same non-zero size under the name of one that was installed over it;
`flow_owner.cfg` shows the exception is needed. `OwnImages` speaks of the disk only; the
inductive form (`TypeOK` and `PairsMatch`) says the same of the VM, the buffer and the
flushers' copies, with the buffer's size tying it to the laid-out program in the window
between an install and the end of its `run_due`. `ShutdownLeavesImage` proves
`Spec => []ExitLeavesImage`. `ExitInv` adds the way of an image: once a pass has notified a
store, the image of the current program is on the disk, in a flusher's hands or in the
buffer, or the run in progress is about to publish it (`StoredIsSaved`), and the main
thread's flush comes after the last publication (`MainLast`).

`RetainStoreProofs` proves `AckedAlwaysSurvives` (`Spec => []AckedSurvives`) and
`StoreImplementsRegister` (`Spec => ImplementsRegister`, the refinement of
`RetainRegister`), for any number of flushes and I/O errors of any step. Hypothesis
`Alone(t)`: one flusher, and syncing a file makes its entry durable; `retain_shutdown.cfg`
shows what happens with two. After a harmful error (`harmed`) the invariant keeps only
what the running flush itself has made of the files, which is enough for the next Ok to
restore the guarantee from any disk; `retain_idx_error.cfg` shows that the exception is needed. The invariant `StoreInv` quantifies over everything a power cut may
leave (`CrashStates`): at each step of a flush every such disk is `Good` for the image
before the flush or for its own, where a torn index is harmless as long as the slot of the
greater generation is the one that counts. The refinement mapping, the set of images those
disks load, then gains the image in flight and is replaced by it when the flush returns.

`HotSwapProofs` proves, for any packages, handlers and bounds, the invariants
`InfoMatchesEngine` (`InfoAgrees`), `ArmedFitsCurrent` (`ArmedFits`) and `PointerHasRun`
(`PointersHaveRun`), and the action properties `RetainCarried` (`SwapCarriesRetain`: every
install runs its copies or is deferred, none fails on them) and `PendingKept`
(`PendingIsKept`: request and B stay until the boundary installs B or, past the deadline,
drops the request and leaves B armed, or the process dies). `SwapInv` says what each task holds at each of its steps:
the arm lock from `begin_arm` to the accepted activation (`LockHeld`), a context that is
still current although the mutex was released (`ArmingIsCurrent`, because no activation is
pending while an arm is in progress), a filled buffer B (`ActivateHasB`), a pointer about
to be written that names a program that has run (`SnapHasRun`), and that the boot has
the runtime for itself (`BootAlone`). `PackageAssumption`: a package names a retained
symbol once, which `RetainLayout::new` enforces, and "no program" is not a package.

`TelemetryProofs` proves `SessionsNumbered`, `NoSilentLoss` and `GaplessIsCurrent`
(`SessionsAreNumbered`, `LossIsCounted`, `GaplessHostIsCurrent`), for any slots, catalogs,
capacities and sequence modulus greater than the client's queue (256 against a queue of 16
in the code). `SampleInv` follows a sample through the ring and the drain: while nothing is
dropped, what the scan recorded as published is the latest of the samples on their way, or
what was taken last. `GapInv` is about the future of the host: replay the queued messages on
the host's state (`Replays`), and it asks for a rebirth on the way, or ends behind the
session by exactly the messages that were lost, modulo the sequence base, and with the
session's values when none was.

`FieldIoProofs` proves `LinesRestSafe` (`LinesAreSafe`) and `GoodIsWhole`
(`GoodInputsAreWhole`), for every set of io-maps, any number of modules and faults and any
width of the transaction id. `FieldInv` follows the values of a poll: on a connection in use
at most one answer is unread, and it is not of the transaction id in use (`WireInv`), so an
accepted answer is the device's to this request; the requests done so far have stored what
the device had (`WorkInv`); what is published Good is a whole poll (`ShareInv`), as is the
scan's copy and, module by module, the image (`ScanInv`), because no two points share a
slot.

`NeighboursAreKept` proves `Spec => []NeighboursKept`. Half of it is planning (`RequestsExact`),
half the worker's steps (`OthersKept`). Neither rests on an assumption about plans: what
planning does is proved for every io-map of the document's types (`MapsAssumption`: a slot or
bit is a natural number, a safe state a number, an image one of the three; nothing about
slots, registers or overlaps). `ResolveFacts`: slots lie in their plane, and an accepted map
gives none twice. `InputPositions`: positions number the inputs of a module. `PointsPlanned`:
each point of an accepted module has a table and a span that overlaps no other. `BuildExact`:
grouping the points by rising address puts each in one request that covers its members'
addresses and no other, whatever the limit; `AddPointExact` is one step of that loop.
`WritesOfModule`: a write request covers output registers only, and the register of an output
bit is written alone and right after it was read. Slot assignment and grouping are recursive
functions. They are unfolded with `Recursion` (a rule that stays within a set is followed by
a function), and what they return is proved with `Climb`, which is induction over the set of
numbers a fact holds of, so that no operator has to be passed to a library theorem.
For the worker, `NearInv` says that its copy of a register between the two requests has the
others' bits as the device has them (`ReadInv`), which rests on `WireInv`: a late answer to
an earlier request is never taken for the read. `BitsAssumption` is the arithmetic of one bit
of a register, which the prover cannot derive because it has no theory of exponents.

`AuditLogProofs` proves the three properties of `AuditLog` for any file size, number of
files, events, failures and crashes: `LogTypeCorrect` (`Spec => []TypeOK`), `PagesComplete`
(`Spec => []PagesInOrder`) and `AckedSurvive` (`Spec => []AckedKept`). `LogInv` has the disk
(`DiskOK`: rotated files are clean and not empty, numbers rise across the names, the next
number is above everything on disk but for the row being committed, acknowledged rows on
disk have no gap and never lie above all that is on disk) and the handle step by step
(`HandleInv`: during a shift the name above the one to move is free and the handle is on the
file it was opened for, an abort finds it at `audit.jsonl` or `.1`, after a failed write the
row is whole or the rest is cut off). From it follows the order of a page. That enough rows
are left needs a second invariant on top of it, `KeptInv` (`KeptInvariant`): a file is
rotated only when full, a shift leaves no name empty but the one it is at, so that the
oldest segment is dropped only while all others are full.

`VerifiedVmProofs` proves `VerifiedStackSafe` (`VmSpec(m) => []StackSafe`) for every module of
bytecode `m`, not only for what the compiler makes: nothing is assumed of `m` but that its
code and its entries are sequences. Addresses are those of words, so jumps into the
operands of an instruction are covered, as are `AND`, `OR` and `XOR` on any type but REAL,
which `verify.rs:432` accepts when both sides agree. The invariant has two halves. `CheckInv` says of the worklist that each
address met so far has been accepted with its stack of types and each of its successors is
met with a compatible stack or waits in the worklist (`Covered`, `Handed`), so that when the
list is empty every body is closed under its jumps (`Verified`). `MachineInv` says of the VM
that for each body that runs, caller or called, the address it is at, or will return to, is
one `verify_entry` met for its entry, with at least that many operands above the height the
body was entered with; the verifier does not know what a user block does to the stack, so
the exact depth, and with it the absence of overflow, is proved where no call and no RET has
operands under it (`BareCalls`, which the `program` run finds true of all compiled code).
`ExecuteOutcome` reduces the instructions to four outcomes: the run ends, it moves to a
successor with the verifier's depth, it enters a body, it leaves one. Unknown blocks, the
call depth, the budget and data offsets are not checked by the verifier in a way that
excludes their faults at run time, so the theorem does not speak of them.

TLC checked each of these invariants on the instance of the component's run before it
was proved.

Only model-checked:

* liveness, which the prover does not cover: `ActivateSettles`, `PendingObserved`,
  `EveryTaskRuns`, `DirtyReachesDisk`, `ValidatingEnds`, `StopReachesField`, `StopEnds`,
  `ComesOnline`;
* `ParseRoundTrip`, `ScanMatchesSource` (with `BareCalls` of compiled code), `SymbolsDisjoint`
  and `PrimitivesFollowSamples` of `Program`: the parser, the compiler and the reference
  semantics are recursive over syntax trees.

## Plan

1. `FieldIo`: the safe image of a STOP in the mailbox (`StopReachesField`) has a safety core
   that could be proved as an invariant.
2. `Program`: `PrimitivesFollowSamples` and `SymbolsDisjoint`, if the compiler's layout is
   written with recursive functions over sequences as `IoMap` is.

## Not modelled

The package format and signatures, MQTT and protobuf encodings, the lexer and the byte
encoding of modules, TLS and configuration parsing are byte and text formats; floating
point (REAL is an integer) is out of TLC's reach; authentication, lockout, rate limit, dual
control, the force limit and the event ring are sequential counters behind one mutex;
read-only REST handlers change nothing; the hardware watchdog, thread priorities and the
order in which the process drops its drivers at exit (`supervisor.rs:189`) are left out.
