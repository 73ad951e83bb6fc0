----------------------------- MODULE RetainFlow -----------------------------
(***************************************************************************)
(* How a retained value gets from the VM to the NV store and back:         *)
(* the dirty signal (plc-scan retain_signal.rs), the snapshot buffer       *)
(* (plc-retain snapshot.rs), its publication by the loader (plc-runtime    *)
(* loader.rs), the T5 flusher, the shutdown flush and the restore at boot  *)
(* (soft-plc-runtime supervisor.rs).                                       *)
(*                                                                         *)
(* The scan holds the Runtime mutex for a whole run_due (scanPc = "run");  *)
(* the flushers take it to copy the snapshot and flush without it.  The    *)
(* signal is atomic and needs no mutex.  One flush is atomic here: its     *)
(* steps on the disk are the subject of RetainStore.                       *)
(*                                                                         *)
(* An image is the layout its bytes were written in and the number of the  *)
(* last store it contains, 0 for zeros.  A swap keeps all values unless    *)
(* the new program has nothing to retain.                                  *)
(*                                                                         *)
(* Definitions named Mutant... are defective variants of the definition    *)
(* that follows them; no specification uses them.                          *)
(***************************************************************************)
EXTENDS Naturals

CONSTANTS
  Programs,    \* programs
  NoProgram,   \* the layout of no image
  Boot,        \* the program of the first start
  Size,        \* Size[p]: retain_size of p's layout
  FlushErrors, \* whether store.flush may fail
  MaxStores,   \* bound: logic passes that store to a retained variable
  MaxChanges   \* bound: swaps and restarts

Flushers == {"t5", "main"}

ASSUME FlowAssumption ==
  /\ Boot \in Programs /\ NoProgram \notin Programs
  /\ Size \in [Programs -> Nat]
  /\ FlushErrors \in BOOLEAN
  /\ MaxStores \in Nat /\ MaxChanges \in Nat

Images  == [layout : Programs \cup {NoProgram}, val : Nat]
NoImage == [layout |-> NoProgram, val |-> 0]

(* Other programs whose retain segment has the size of p's.                *)
SameSize(p) == {q \in Programs \ {p} : Size[p] # 0 /\ Size[q] = Size[p]}

VARIABLES
  cur,       \* the current program
  vm,        \* the retain segment of its VM
  vmDirty,   \* Vm.retain_dirty: stored but not notified (the pass failed)
  dirty,     \* RetainDirtySignal.dirty
  everDirty, \* RetainDirtySignal.seq # 0
  unpub,     \* RetainDirtySignal.seq # Runtime.last_retain_seq
  buf,       \* the published image of RetainSnapshotBuffer
  bufSize,   \* its size
  fresh,     \* its seq is neither 0 nor last_take
  laidOut,   \* Runtime.current_layout: whose layout flushes use
  disk,      \* disk[p]: what RetainStore holds for p
  scanPc,    \* "free", "want" (about to lock), "run" (mutex held), "exit"
  pc,        \* pc[t]: the flushers
  last,      \* T5 has left its loop
  snap,      \* snap[t]: the program and the image a flusher copied
  stop,      \* the stop flag
  stores,    \* stores so far; numbers the images
  changes,   \* swaps and restarts so far
  notified,  \* history: the image of the program's last pass that notified
  twin,      \* history: cur was swapped in, over a program of its own size
  aliased,   \* history: programs ever installed over one of their own size
  failed     \* history: a flush has failed since the boot

swapVars == <<changes, twin, aliased>>
scanVars == <<cur, vm, vmDirty, everDirty, unpub, laidOut, stores, notified, swapVars>>
bufVars  == <<buf, bufSize, fresh>>
vars == <<scanVars, dirty, bufVars, disk, scanPc, pc, last, snap, stop, failed>>

Zeros(p) == [layout |-> p, val |-> 0]

FirstPc == [t \in Flushers |-> IF t = "t5" THEN "idle" ELSE "wait"]

Nothing == [id |-> Boot, image |-> NoImage]
NoSnap  == [t \in Flushers |-> Nothing]

(* The first start: Boot is installed, its store is empty, and             *)
(* restore_retain publishes the zero image.                                *)
Init ==
  /\ cur = Boot /\ laidOut = Boot /\ vm = Zeros(Boot)
  /\ vmDirty = FALSE /\ dirty = FALSE /\ everDirty = FALSE /\ unpub = FALSE
  /\ buf = (IF Size[Boot] = 0 THEN NoImage ELSE vm)
  /\ bufSize = Size[Boot] /\ fresh = (Size[Boot] # 0)
  /\ disk = [p \in Programs |-> NoImage]
  /\ scanPc = "free" /\ pc = FirstPc /\ last = FALSE /\ snap = NoSnap
  /\ stop = FALSE /\ failed = FALSE /\ stores = 0 /\ notified = NoImage
  /\ changes = 0 /\ twin = FALSE /\ aliased = {}

(* Another swap or restart.                                                *)
Change == changes < MaxChanges /\ changes' = changes + 1

-----------------------------------------------------------------------------
(* The scan thread.  scan_loop looks at the stop flag, then locks.         *)
CheckStop ==
  /\ scanPc = "free" /\ ~stop /\ scanPc' = "want"
  /\ UNCHANGED <<scanVars, dirty, bufVars, disk, pc, last, snap, stop, failed>>

BeginRun ==
  /\ scanPc = "want" /\ scanPc' = "run"
  /\ UNCHANGED <<scanVars, dirty, bufVars, disk, pc, last, snap, stop, failed>>

(* commit_install of an armed program: buffer B's retain shadow, with the  *)
(* keep-set blitted from the old VM, becomes the retain segment.  The next *)
(* arm needs the mutex, so one run_due installs at most once.              *)
Install(p) ==
  /\ Change /\ scanPc = "run" /\ laidOut = cur /\ p # cur
  /\ cur' = p /\ vmDirty' = FALSE /\ notified' = NoImage
  /\ vm' = [layout |-> p, val |-> IF Size[p] = 0 THEN 0 ELSE vm.val]
  /\ twin' = (cur \in SameSize(p))
  /\ aliased' = IF twin' THEN aliased \cup {p} ELSE aliased
  /\ UNCHANGED <<dirty, everDirty, unpub, bufVars, laidOut, disk, scanPc, pc,
                 last, snap, stop, failed, stores>>

(* run_logic after a pass that ran to HALT with retain_dirty up: it        *)
(* notifies the signal.                                                    *)
Notify(image) ==
  /\ vm' = image /\ notified' = image /\ vmDirty' = FALSE
  /\ dirty' = TRUE /\ everDirty' = TRUE /\ unpub' = TRUE
  /\ UNCHANGED <<cur, laidOut, bufVars, disk, scanPc, pc, last, snap, stop, failed,
                 swapVars>>

Stored == [layout |-> vm.layout, val |-> stores + 1]

(* A pass that stores to a retained variable.                              *)
Logic ==
  /\ scanPc = "run" /\ Size[cur] # 0 /\ stores < MaxStores
  /\ stores' = stores + 1
  /\ Notify(Stored)

(* A pass that stores nothing, after one that stored and failed.           *)
LogicAfterError ==
  /\ scanPc = "run" /\ vmDirty
  /\ UNCHANGED stores
  /\ Notify(vm)

(* A logic pass that stores and then fails: retain_dirty stays up and the  *)
(* next pass that halts notifies.                                          *)
LogicError ==
  /\ scanPc = "run" /\ Size[cur] # 0 /\ stores < MaxStores
  /\ stores' = stores + 1
  /\ vm' = Stored /\ vmDirty' = TRUE
  /\ UNCHANGED <<cur, dirty, everDirty, unpub, laidOut, bufVars, disk, scanPc,
                 pc, last, snap, stop, failed, notified, swapVars>>

MutantNeedsBuffer == bufSize < Size[cur]

(* resize_retain_snapshot keeps a buffer of the right size.                *)
NeedsBuffer == bufSize # Size[cur]

MutantPending(anew) == unpub

(* publish_retain_if_dirty: has the signal moved since last_retain_seq,    *)
(* which resize_retain_snapshot resets to 0 with a new buffer?             *)
Pending(anew) == IF anew THEN everDirty ELSE unpub

(* The end of run_due, mutex still held: sync_layouts_after_step with      *)
(* resize_retain_snapshot, then publish_retain_if_dirty.  A program with   *)
(* nothing to retain has no buffer.                                        *)
EndRun ==
  /\ scanPc = "run" /\ scanPc' = "free"
  /\ laidOut' = cur
  /\ LET anew == laidOut # cur /\ NeedsBuffer
     IN /\ bufSize' = IF anew THEN Size[cur] ELSE bufSize
        /\ \/ /\ Size[cur] = 0
              /\ buf' = NoImage /\ fresh' = FALSE /\ UNCHANGED unpub
           \/ /\ Size[cur] # 0 /\ Pending(anew)
              /\ buf' = vm /\ fresh' = TRUE /\ unpub' = FALSE
           \/ /\ Size[cur] # 0 /\ ~Pending(anew)
              /\ buf' = IF anew THEN NoImage ELSE buf
              /\ fresh' = (fresh /\ ~anew)
              /\ UNCHANGED unpub
  /\ UNCHANGED <<cur, vm, vmDirty, everDirty, stores, notified, swapVars, dirty,
                 disk, pc, last, snap, stop, failed>>

-----------------------------------------------------------------------------
(* The flushers.  T5 polls the signal; main waits for the scan thread.     *)

(* retain_flusher: watch.take().                                           *)
Take ==
  /\ pc["t5"] = "idle" /\ ~stop /\ dirty
  /\ dirty' = FALSE /\ pc' = [pc EXCEPT !["t5"] = "read"]
  /\ UNCHANGED <<scanVars, bufVars, disk, scanPc, last, snap, stop, failed>>

(* retain_flusher leaves its loop: one flush more.                         *)
LastTake ==
  /\ pc["t5"] = "idle" /\ stop
  /\ pc' = [pc EXCEPT !["t5"] = "read"] /\ last' = TRUE
  /\ UNCHANGED <<scanVars, dirty, bufVars, disk, scanPc, snap, stop, failed>>

Done(t) == IF t = "t5" /\ ~last THEN "idle" ELSE "end"

(* flush_retain, with the mutex: the program's id, its layout and a        *)
(* snapshot that has not been taken yet.                                   *)
Read(t) ==
  /\ pc[t] = "read" /\ scanPc # "run" /\ fresh
  /\ snap' = [snap EXCEPT ![t] = [id |-> laidOut, image |-> buf]]
  /\ fresh' = FALSE
  /\ pc' = [pc EXCEPT ![t] = "flush"]
  /\ UNCHANGED <<scanVars, dirty, buf, bufSize, disk, scanPc, last, stop, failed>>

NothingNew(t) ==
  /\ pc[t] = "read" /\ scanPc # "run" /\ ~fresh
  /\ pc' = [pc EXCEPT ![t] = Done(t)]
  /\ UNCHANGED <<scanVars, dirty, bufVars, disk, scanPc, last, snap, stop, failed>>

MutantFlush(t) ==
  /\ pc[t] = "flush"
  /\ disk' = [disk EXCEPT ![snap[t].id] = snap[t].image]
  /\ dirty' = FALSE
  /\ pc' = [pc EXCEPT ![t] = Done(t)] /\ snap' = [snap EXCEPT ![t] = Nothing]
  /\ UNCHANGED <<scanVars, bufVars, scanPc, last, stop, failed>>

(* store.flush, without the mutex.                                         *)
Flush(t) ==
  /\ pc[t] = "flush"
  /\ disk' = [disk EXCEPT ![snap[t].id] = snap[t].image]
  /\ pc' = [pc EXCEPT ![t] = Done(t)] /\ snap' = [snap EXCEPT ![t] = Nothing]
  /\ UNCHANGED <<scanVars, dirty, bufVars, scanPc, last, stop, failed>>

FlushFails(t) ==
  /\ FlushErrors /\ pc[t] = "flush" /\ failed' = TRUE
  /\ pc' = [pc EXCEPT ![t] = Done(t)] /\ snap' = [snap EXCEPT ![t] = Nothing]
  /\ UNCHANGED <<scanVars, dirty, bufVars, disk, scanPc, last, stop>>

-----------------------------------------------------------------------------
(* Supervisor::shutdown: the stop flag, the join of the scan thread, the   *)
(* extra flush.                                                            *)
Shutdown ==
  /\ ~stop /\ stop' = TRUE
  /\ UNCHANGED <<scanVars, dirty, bufVars, disk, scanPc, pc, last, snap, failed>>

Join ==
  /\ stop /\ scanPc = "free" /\ pc["main"] = "wait"
  /\ scanPc' = "exit" /\ pc' = [pc EXCEPT !["main"] = "read"]
  /\ UNCHANGED <<scanVars, dirty, bufVars, disk, last, snap, stop, failed>>

Exited == pc["t5"] = "end" /\ pc["main"] = "end"

(* The process ends, by a power cut at any moment or because it was shut   *)
(* down, and starts again with the program of the current pointer or of    *)
(* the command line.  install_package: that program is installed, its      *)
(* image loaded and published.  Nothing runs before (the API is not served *)
(* and the mode is STOP).                                                  *)
Restart(p) ==
  /\ Change
  /\ cur' = p /\ laidOut' = p
  /\ vm' = IF disk[p] = NoImage THEN Zeros(p) ELSE disk[p]
  /\ vmDirty' = FALSE /\ dirty' = FALSE /\ everDirty' = FALSE /\ unpub' = FALSE
  /\ buf' = (IF Size[p] = 0 THEN NoImage ELSE vm')
  /\ bufSize' = Size[p] /\ fresh' = (Size[p] # 0)
  /\ scanPc' = "free" /\ pc' = FirstPc /\ last' = FALSE /\ snap' = NoSnap
  /\ stop' = FALSE /\ failed' = FALSE /\ notified' = NoImage
  /\ twin' = FALSE
  /\ UNCHANGED <<disk, stores, aliased>>

ScanStep == CheckStop \/ BeginRun \/ (\E p \in Programs : Install(p))
            \/ Logic \/ LogicAfterError \/ LogicError \/ EndRun

FlushStep(t) == Read(t) \/ NothingNew(t) \/ Flush(t) \/ FlushFails(t)

Next ==
  \/ ScanStep
  \/ Take \/ LastTake
  \/ \E t \in Flushers : FlushStep(t)
  \/ Shutdown \/ Join
  \/ \E p \in Programs : Restart(p)

Spec == Init /\ [][Next]_vars

(* run_due ends; T5 polls every 50 ms; scan_loop sleeps at least 200 us    *)
(* without the mutex, so a flusher that wants it gets it; a flush that is  *)
(* tried again and again succeeds some day.                                *)
FairSpec ==
  /\ Spec
  /\ WF_vars(EndRun) /\ WF_vars(BeginRun)
  /\ WF_vars(Take \/ LastTake) /\ WF_vars(Join)
  /\ \A t \in Flushers :
       /\ SF_vars(Read(t) \/ NothingNew(t))
       /\ WF_vars(Flush(t) \/ FlushFails(t))
       /\ SF_vars(Flush(t))

-----------------------------------------------------------------------------
(* Every variable is in its range, and between two runs of the scan the    *)
(* snapshot buffer has the size of the program whose layout flushes use.   *)
TypeOK ==
  /\ cur \in Programs /\ laidOut \in Programs
  /\ vm \in Images /\ buf \in Images /\ notified \in Images
  /\ vmDirty \in BOOLEAN /\ dirty \in BOOLEAN /\ everDirty \in BOOLEAN
  /\ unpub \in BOOLEAN /\ fresh \in BOOLEAN
  /\ last \in BOOLEAN /\ stop \in BOOLEAN /\ failed \in BOOLEAN
  /\ bufSize = Size[laidOut] /\ (bufSize = 0 => ~fresh)
  /\ disk \in [Programs -> Images]
  /\ scanPc \in {"free", "want", "run", "exit"}
  /\ pc \in [Flushers -> {"idle", "wait", "read", "flush", "end"}]
  /\ snap \in [Flushers -> [id : Programs, image : Images]]
  /\ stores \in 0..MaxStores
  /\ changes \in 0..MaxChanges /\ twin \in BOOLEAN /\ aliased \subseteq Programs

(* The store of a program holds values of that program's layout:           *)
(* flush_retain pairs the id, the layout and the image of one program,     *)
(* whatever swaps happened before and between.  There is one exception,    *)
(* and it goes no further: a program that has been installed over another  *)
(* one of the same retain size finds that one's image in the buffer, which *)
(* resize_retain_snapshot keeps, and it may be filed under the new name.   *)
OwnImages ==
  \A p \in Programs :
    disk[p].val # 0 => \/ disk[p].layout = p
                       \/ p \in aliased /\ disk[p].layout \in SameSize(p)

(* The same without the exception; the code does not keep it.              *)
NeverForeign == \A p \in Programs : disk[p].val # 0 => disk[p].layout = p

(* What makes it so: wherever an image is, VM, buffer, a flusher's copy or *)
(* the disk, it is of the program it is filed under, or of one of the same *)
(* size that it has replaced, also between a swap and the end of its       *)
(* run_due.                                                                *)
Fits(image, p) ==
  \/ image = NoImage
  \/ image.layout = p
  \/ p \in aliased /\ image.layout \in SameSize(p)
PairsMatch ==
  /\ vm # NoImage /\ Fits(vm, cur)
  /\ Fits(buf, laidOut)
  /\ scanPc # "run" => laidOut = cur
  /\ twin => cur \in aliased
  /\ laidOut # cur => twin = (laidOut \in SameSize(cur))
  /\ \A t \in Flushers : Fits(snap[t].image, snap[t].id)
  /\ \A p \in Programs : Fits(disk[p], p)

(* A store by a completed logic pass reaches the NV store while the        *)
(* runtime goes on and no flush fails, unless power is lost or the program *)
(* is replaced first: T5 takes the signal before or after the snapshot is  *)
(* published, and before or during a flush of an older one.                *)
DirtyReachesDisk ==
  \A s \in 1..MaxStores :
    notified.val = s ~> (disk[cur].val >= s \/ notified = NoImage \/ stop \/ failed)

(* The same although a flush may fail, as long as flushes that are tried   *)
(* again succeed in the end (store.rs: "Dirty: scan publishes a snapshot;  *)
(* T5 flush").                                                             *)
ErrorsAreRetried ==
  \A s \in 1..MaxStores :
    notified.val = s ~> (disk[cur].val >= s \/ notified = NoImage \/ stop)

(* After a graceful shutdown the program that ran has an image in the      *)
(* store if a pass has stored since the boot, also when the store was made *)
(* by a program that has been replaced: the first run_due after a swap     *)
(* publishes for the new program what it took over.  It does not if the    *)
(* two have the same retain size, for then the buffer and last_retain_seq  *)
(* stay; there the new program must have stored something itself.          *)
ExitLeavesImage ==
  /\ Exited /\ everDirty /\ ~failed /\ vm.val # 0
  /\ ~twin \/ notified # NoImage
  => disk[cur] # NoImage

(* The same without the exception; the code does not keep it.              *)
TakenOverIsSaved ==
  Exited /\ everDirty /\ ~failed /\ vm.val # 0 => disk[cur] # NoImage
=============================================================================
