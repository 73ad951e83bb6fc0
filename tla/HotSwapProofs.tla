--------------------------- MODULE HotSwapProofs ---------------------------
(***************************************************************************)
(* Proofs about the program life cycle, for every set of packages, any     *)
(* number of request handlers and any number of requests and crashes.      *)
(*                                                                         *)
(* The argument: an arm in progress (pc "armPrepare") holds the arm lock,  *)
(* so no activate is accepted before it ends; without a pending activate   *)
(* nothing is installed, so the context that begin_arm took still          *)
(* describes the running program when commit_arm fills buffer B.           *)
(***************************************************************************)
EXTENDS HotSwap, TLAPS

Programs == Packages \cup {None}
NamesOrNone == Ids \cup {None}
Layout(k) == [Offsets(k) -> Values]
Cells == UNION {Layout(k) : k \in Programs}
Contexts == [cur : Programs, bytes : Cells]
Snapshots == [current : NamesOrNone, armed : NamesOrNone]
Locals == [id : NamesOrNone, pkg : Programs, meta : Programs,
           ctx : Contexts \cup {None}, snap : Snapshots \cup {None}]
Places == {"idle", "putMeta", "remove", "armLock", "armBegin", "armPrepare",
           "activate", "poll", "syncRead", "syncWrite", "catalog", "restore",
           "waitCurrent"}

EngineOK ==
  /\ eng \in [cur : Programs, vm : Cells, armed : Prepared \cup {None},
              phase : {"Idle", "Validating", "Armed"}, req : BOOLEAN]
  /\ eng.vm \in Layout(eng.cur)
  /\ eng.armed # None => eng.armed.image \in Layout(eng.armed.pkg)

StoreOK ==
  /\ pkgFile \in [Ids -> Programs] /\ metaFile \in [Ids -> Programs]
  /\ ptr \in Snapshots /\ was \in SUBSET Ids

TasksOK ==
  /\ pc \in [Procs -> Places]
  /\ loc \in [Procs -> Locals]
  /\ armLock \in Procs \cup {None}

\* What a task has in its locals at each place.
LocalsOK(p) ==
  /\ pc[p] \in {"putMeta", "armLock", "armBegin", "armPrepare"} => loc[p].pkg \in Packages
  /\ pc[p] = "remove" => loc[p].id \in Ids
  /\ pc[p] = "armPrepare" =>
       loc[p].ctx \in Contexts /\ loc[p].ctx.bytes \in Layout(loc[p].ctx.cur)
  /\ pc[p] = "syncWrite" => loc[p].snap \in Snapshots

\* The tasks that arm or accept an activate hold the arm lock.
LockHeld(p) == pc[p] \in {"armBegin", "armPrepare", "activate"} => armLock = p

\* No activate is pending during an arm, and the context is still current.
ArmingIsCurrent(p) ==
  pc[p] = "armPrepare" => ~eng.req /\ loc[p].ctx.cur = eng.cur

\* Between the checks of activate and request_activate, B stays filled.
ActivateHasB(p) == pc[p] = "activate" => ~eng.req /\ eng.armed # None

\* Every pointer that is about to be written names a program that has run.
SnapHasRun(p) == pc[p] = "syncWrite" => loc[p].snap.current \in was \cup {None}

TaskInv(p) ==
  LocalsOK(p) /\ LockHeld(p) /\ ArmingIsCurrent(p) /\ ActivateHasB(p) /\ SnapHasRun(p)

\* Boot restores into an empty runtime that serves no request yet.
BootAlone ==
  /\ pc[Boot] = "restore" =>
       eng = EngineInit /\ info = InfoInit /\ up # "serving"
  /\ \A p \in Procs : pc[p] \in {"restore", "waitCurrent"} => p = Boot /\ up # "serving"
  /\ pc[Follower] \in {"idle", "syncRead", "syncWrite", "catalog"}
  /\ pc[Boot] \in {"idle", "syncRead", "syncWrite", "catalog", "restore", "waitCurrent"}
  /\ up # "serving" => \A p \in Handlers : pc[p] = "idle"

CurrentHasRun == eng.cur # None => eng.cur.id \in was

BufferInv ==
  /\ EngineOK /\ info \in [cur : Programs, armed : Programs]
  /\ InfoMatchesEngine /\ ArmedFitsCurrent /\ CurrentHasRun

SwapInv ==
  /\ BufferInv /\ StoreOK /\ PointerHasRun
  /\ TasksOK /\ BootAlone /\ \A p \in Procs : TaskInv(p)

----------------------------------------------------------------------------
(* What arming computes.                                                   *)

(* map_retain yields a cell for every offset of the new layout.            *)
LEMMA MapRetainType ==
  ASSUME NEW k \in Packages, NEW old \in Programs, NEW bytes \in Layout(old)
  PROVE  MapRetain(RetainCopies(old, k), bytes, k) \in Layout(k)
<1> DEFINE copies == RetainCopies(old, k)
<1>1. ASSUME NEW j \in Offsets(k), \E c \in copies : c[2] = j
      PROVE  bytes[(CHOOSE c \in copies : c[2] = j)[1]] \in Values
  <2> DEFINE d == CHOOSE c \in copies : c[2] = j
  <2>1. d \in copies
    BY <1>1
  <2>2. d[1] \in Offsets(old)
    BY <2>1 DEF RetainCopies
  <2>3. QED
    BY <2>2 DEF Layout
<1>2. QED
  BY <1>1, HotSwapConstants DEF MapRetain, Layout

(* build_prepared is well formed, and its fields are what it names.        *)
LEMMA BuildPreparedType ==
  ASSUME NEW k \in Packages, NEW ctx \in Contexts, ctx.bytes \in Layout(ctx.cur)
  PROVE  LET b == BuildPrepared(k, ctx)
         IN /\ b \in Prepared /\ b # None /\ b.pkg = k
            /\ b.copies = RetainCopies(ctx.cur, k)
            /\ b.policy = ResolveRestart(ctx.cur, k)
            /\ b.image \in Layout(k)
<1> DEFINE b == BuildPrepared(k, ctx)
           copies == RetainCopies(ctx.cur, k)
           image == MapRetain(copies, ctx.bytes, k)
<1>1. image \in Layout(k)
  BY MapRetainType DEF Contexts
<1>2. copies \in SUBSET (Nat \X Nat)
  BY DEF RetainCopies, Offsets
<1>3. ResolveRestart(ctx.cur, k) \in {"Bumpless", "SafeReset"}
  BY DEF ResolveRestart
<1>4. b = [pkg |-> k, copies |-> copies, image |-> image,
           policy |-> ResolveRestart(ctx.cur, k)]
  BY DEF BuildPrepared
<1> HIDE DEF b, copies, image
<1>5. b \in Prepared
  BY <1>1, <1>2, <1>3, <1>4 DEF Prepared, Layout
<1>6. QED
  BY <1>1, <1>4, <1>5, PackageAssumption DEF copies, b

(* No two copies of a layout go to one cell: symbols are unique.           *)
LEMMA CopiesAreUnique ==
  ASSUME NEW old \in Programs, NEW new \in Packages,
         NEW c \in RetainCopies(old, new), NEW d \in RetainCopies(old, new),
         c[2] = d[2]
  PROVE  c[1] = d[1]
<1>1. /\ c[1] \in Offsets(old) /\ d[1] \in Offsets(old)
      /\ old.retain[c[1]] = old.retain[d[1]]
  BY DEF RetainCopies
<1>2. old \in Packages
  BY <1>1 DEF Offsets, Programs
<1>3. QED
  BY <1>1, <1>2, PackageAssumption

(* The blit of an install finds every cell it copies, fills every cell of  *)
(* the incoming program, and carries the shared ones.                      *)
LEMMA BlitCarries ==
  ASSUME BufferInv, eng.armed # None
  PROVE  /\ ~BlitFails(eng)
         /\ BlitRetain(eng) \in Layout(eng.armed.pkg)
         /\ \A c \in RetainCopies(eng.cur, eng.armed.pkg) :
              BlitRetain(eng)[c[2]] = eng.vm[c[1]]
<1> DEFINE copies == RetainCopies(eng.cur, eng.armed.pkg)
           B == BlitRetain(eng)
<1>1. /\ eng.cur \in Programs /\ eng.armed.pkg \in Packages
      /\ eng.vm \in Layout(eng.cur) /\ eng.armed.image \in Layout(eng.armed.pkg)
      /\ eng.armed.copies = copies
  BY DEF BufferInv, EngineOK, ArmedFitsCurrent, Prepared
<1>2. \A c \in copies : c[1] \in Offsets(eng.cur) /\ c[2] \in Offsets(eng.armed.pkg)
  BY DEF RetainCopies
<1>3. DOMAIN eng.vm = Offsets(eng.cur) /\ DOMAIN eng.armed.image = Offsets(eng.armed.pkg)
  BY <1>1 DEF Layout
<1>4. ~BlitFails(eng)
  BY <1>1, <1>2, <1>3 DEF BlitFails
<1> HIDE DEF copies
<1>5. ASSUME NEW j \in Offsets(eng.armed.pkg) PROVE B[j] \in Values
  <2>1. CASE eng.cur # None /\ \E c \in copies : c[2] = j
    <3> DEFINE d == CHOOSE c \in copies : c[2] = j
    <3>1. d \in copies
      BY <2>1
    <3>2. eng.vm[d[1]] \in Values
      BY <3>1, <1>1, <1>2 DEF Layout
    <3>3. B[j] = eng.vm[d[1]]
      BY <2>1, <1>1, <1>3 DEF BlitRetain
    <3>4. QED BY <3>2, <3>3
  <2>2. CASE ~(eng.cur # None /\ \E c \in copies : c[2] = j)
    BY <2>2, <1>1, <1>3 DEF BlitRetain, Layout
  <2>3. QED BY <2>1, <2>2
<1>6. B \in Layout(eng.armed.pkg)
  BY <1>3, <1>5 DEF BlitRetain, Layout
<1>7. ASSUME NEW c \in copies PROVE B[c[2]] = eng.vm[c[1]]
  <2> DEFINE d == CHOOSE e \in copies : e[2] = c[2]
  <2>1. d \in copies /\ d[2] = c[2]
    OBVIOUS
  <2>2. d[1] = c[1]
    BY <1>1, <2>1, CopiesAreUnique DEF copies
  <2>3. eng.cur # None
    BY <1>2 DEF Offsets
  <2>4. B[c[2]] = eng.vm[d[1]]
    BY <1>1, <1>2, <1>3, <2>1, <2>3 DEF BlitRetain
  <2>5. QED BY <2>2, <2>4
<1>8. QED BY <1>4, <1>6, <1>7 DEF copies

----------------------------------------------------------------------------
(* The steps.                                                              *)

(* The first start and a restart: an empty runtime.                        *)
LEMMA FreshRuntime ==
  ASSUME StoreOK', PointerHasRun', eng' = EngineInit, info' = InfoInit,
         armLock' = None, up' = "boot",
         pc' = [p \in Procs |-> IF p = Boot THEN "restore" ELSE "idle"],
         loc' = [p \in Procs |-> LocInit]
  PROVE  SwapInv'
<1>1. <<>> \in Layout(None)
  BY DEF Layout, Offsets
<1>2. BufferInv'
  <2>1. eng' \in [cur : Programs, vm : Cells, armed : Prepared \cup {None},
              phase : {"Idle", "Validating", "Armed"}, req : BOOLEAN]
    BY <1>1 DEF EngineInit, Programs, Cells
  <2>2. QED
    BY <1>1, <2>1 DEF BufferInv, EngineOK, EngineInit, InfoInit, Programs,
       InfoMatchesEngine, ArmedFitsCurrent, CurrentHasRun
<1>3. TasksOK'
  BY DEF TasksOK, LocInit, Locals, Places, NamesOrNone, Programs
<1>4. BootAlone'
  BY HotSwapConstants DEF BootAlone, Procs
<1>5. \A p \in Procs : TaskInv(p)'
  BY DEF TaskInv, LocalsOK, LockHeld, ArmingIsCurrent, ActivateHasB, SnapHasRun
<1>6. QED
  BY <1>2, <1>3, <1>4, <1>5 DEF SwapInv

(* Nothing runs and nothing is armed at the first start.                   *)
LEMMA InitSwap == Init => SwapInv
<1> SUFFICES ASSUME Init PROVE SwapInv
  OBVIOUS
<1>1. StoreOK
  BY HotSwapConstants DEF Init, DiskInit, StoreOK, Ids, Programs, Snapshots, NamesOrNone
<1>2. PointerHasRun
  BY DEF Init, DiskInit, PointerHasRun
<1>3. <<>> \in Layout(None)
  BY DEF Layout, Offsets
<1>4. BufferInv
  <2>1. eng \in [cur : Programs, vm : Cells, armed : Prepared \cup {None},
              phase : {"Idle", "Validating", "Armed"}, req : BOOLEAN]
    BY <1>3 DEF Init, EngineInit, Programs, Cells
  <2>2. QED
    BY <1>3, <2>1 DEF Init, BufferInv, EngineOK, EngineInit, InfoInit, Programs,
       InfoMatchesEngine, ArmedFitsCurrent, CurrentHasRun
<1>5. TasksOK
  BY DEF Init, TasksOK, LocInit, Locals, Places, NamesOrNone, Programs
<1>6. BootAlone
  BY HotSwapConstants DEF Init, BootAlone, Procs
<1>7. \A p \in Procs : TaskInv(p)
  BY DEF Init, TaskInv, LocalsOK, LockHeld, ArmingIsCurrent, ActivateHasB, SnapHasRun
<1>8. QED
  BY <1>1, <1>2, <1>4, <1>5, <1>6, <1>7 DEF SwapInv

(* A step that leaves the two buffers alone keeps what holds of them.      *)
LEMMA BuffersKept ==
  ASSUME SwapInv, UNCHANGED <<eng, info, was>>
  PROVE  BufferInv'
BY DEF SwapInv, BufferInv, EngineOK, InfoMatchesEngine, ArmedFitsCurrent, CurrentHasRun

(* A task that is not at a place with an obligation needs nothing.         *)
LEMMA FreeTask ==
  ASSUME NEW p \in Procs, pc'[p] \in {"idle", "poll", "syncRead", "catalog", "restore", "waitCurrent"}
  PROVE  TaskInv(p)'
BY DEF TaskInv, LocalsOK, LockHeld, ArmingIsCurrent, ActivateHasB, SnapHasRun

(* A task that does not move keeps its obligations when the engine, the    *)
(* history and its hold of the arm lock do not change.                     *)
LEMMA StillTask ==
  ASSUME SwapInv, NEW p \in Procs, pc'[p] = pc[p], loc'[p] = loc[p],
         UNCHANGED eng, was \subseteq was', armLock = p => armLock' = p
  PROVE  TaskInv(p)'
BY DEF SwapInv, TaskInv, LocalsOK, LockHeld, ArmingIsCurrent, ActivateHasB, SnapHasRun

(* Requests that only read or write the store.                             *)
LEMMA RequestStep ==
  ASSUME SwapInv, NEW p \in Handlers, Upload(p) \/ Delete(p) \/ ArmGet(p) \/ ActivateLock(p)
  PROVE  SwapInv'
<1>1. p \in Procs /\ p # Boot /\ p # Follower /\ pc[p] = "idle" /\ up = "serving"
  BY HotSwapConstants DEF Procs, Upload, Delete, ArmGet, ActivateLock, Request
<1>2. UNCHANGED <<eng, info, was, up>>
  BY DEF Upload, Delete, ArmGet, ActivateLock
<1>3. BufferInv'
  BY <1>2, BuffersKept
<1>4. PICK at \in {"putMeta", "remove", "armLock", "activate"} :
        pc' = [pc EXCEPT ![p] = at]
  BY DEF Upload, Delete, ArmGet, ActivateLock, Goto
<1>5. BootAlone'
  BY <1>1, <1>2, <1>4 DEF SwapInv, BootAlone, TasksOK
<1>6. \A q \in Procs \ {p} : TaskInv(q)'
  <2> SUFFICES ASSUME NEW q \in Procs \ {p} PROVE TaskInv(q)'
    OBVIOUS
  <2>1. pc'[q] = pc[q] /\ loc'[q] = loc[q]
    BY <1>1, <1>4 DEF SwapInv, TasksOK, Upload, Delete, ArmGet, ActivateLock
  <2>2. armLock = q => armLock' = q
    BY HotSwapConstants DEF Upload, Delete, ArmGet, ActivateLock
  <2>3. QED
    BY <1>2, <2>1, <2>2, StillTask
<1>7. CASE Upload(p)
  <2>1. PICK k \in Packages : /\ pkgFile' = [pkgFile EXCEPT ![k.id] = k]
                              /\ loc' = [loc EXCEPT ![p].pkg = k]
    BY <1>7 DEF Upload
  <2>2. StoreOK' /\ PointerHasRun'
    BY <1>7, <2>1 DEF Upload, SwapInv, StoreOK, PointerHasRun, Programs, Ids
  <2>3. TasksOK'
    BY <1>1, <1>4, <1>7, <2>1 DEF Upload, SwapInv, TasksOK, Locals, Places, Programs
  <2>4. TaskInv(p)'
    BY <1>1, <1>4, <1>7, <2>1 DEF Upload, Goto, SwapInv, TasksOK, Locals,
       TaskInv, LocalsOK, LockHeld, ArmingIsCurrent, ActivateHasB, SnapHasRun
  <2>5. QED
    BY <1>3, <1>5, <1>6, <2>2, <2>3, <2>4 DEF SwapInv
<1>8. CASE Delete(p)
  <2>1. PICK i \in Ids : loc' = [loc EXCEPT ![p].id = i]
    BY <1>8 DEF Delete
  <2>2. StoreOK' /\ PointerHasRun'
    BY <1>8 DEF Delete, SwapInv, StoreOK, PointerHasRun, disk
  <2>3. TasksOK'
    BY <1>1, <1>4, <1>8, <2>1 DEF Delete, SwapInv, TasksOK, Locals, Places, NamesOrNone
  <2>4. TaskInv(p)'
    BY <1>1, <1>4, <1>8, <2>1 DEF Delete, Goto, SwapInv, TasksOK, Locals,
       TaskInv, LocalsOK, LockHeld, ArmingIsCurrent, ActivateHasB, SnapHasRun
  <2>5. QED
    BY <1>3, <1>5, <1>6, <2>2, <2>3, <2>4 DEF SwapInv
<1>9. CASE ArmGet(p)
  <2>1. PICK i \in Ids : /\ Stored(i)
                         /\ loc' = [loc EXCEPT ![p] = [@ EXCEPT !.meta = metaFile[i], !.pkg = pkgFile[i]]]
    BY <1>9 DEF ArmGet
  <2> DEFINE l == [loc[p] EXCEPT !.meta = metaFile[i], !.pkg = pkgFile[i]]
  <2>2. metaFile[i] \in Programs /\ pkgFile[i] \in Packages
    BY <2>1 DEF SwapInv, StoreOK, Stored, Programs
  <2>3. loc[p] \in Locals
    BY <1>1 DEF SwapInv, TasksOK
  <2>4. l \in Locals /\ l.pkg = pkgFile[i]
    BY <2>2, <2>3 DEF Locals, Programs
  <2>5. loc' = [loc EXCEPT ![p] = l]
    BY <2>1
  <2> HIDE DEF l
  <2>6. StoreOK' /\ PointerHasRun'
    BY <1>9 DEF ArmGet, SwapInv, StoreOK, PointerHasRun, disk
  <2>7. TasksOK'
    BY <1>1, <1>4, <1>9, <2>4, <2>5 DEF ArmGet, SwapInv, TasksOK, Places
  <2>8. TaskInv(p)'
    BY <1>1, <1>4, <1>9, <2>2, <2>4, <2>5 DEF ArmGet, Goto, SwapInv, TasksOK,
       TaskInv, LocalsOK, LockHeld, ArmingIsCurrent, ActivateHasB, SnapHasRun
  <2>9. QED
    BY <1>3, <1>5, <1>6, <2>6, <2>7, <2>8 DEF SwapInv
<1>10. CASE ActivateLock(p)
  <2>1. StoreOK' /\ PointerHasRun'
    BY <1>10 DEF ActivateLock, SwapInv, StoreOK, PointerHasRun, disk
  <2>2. TasksOK'
    BY <1>1, <1>4, <1>10 DEF ActivateLock, SwapInv, TasksOK, Places
  <2>3. ~eng.req /\ eng.armed # None
    BY <1>10 DEF ActivateLock, ActivateAllowed, SwapInv, BufferInv, InfoMatchesEngine
  <2>4. TaskInv(p)'
    BY <1>1, <1>10, <2>3 DEF ActivateLock, Goto, SwapInv, TasksOK,
       TaskInv, LocalsOK, LockHeld, ArmingIsCurrent, ActivateHasB, SnapHasRun
  <2>5. QED
    BY <1>3, <1>5, <1>6, <2>1, <2>2, <2>4 DEF SwapInv
<1>11. QED
  BY <1>7, <1>8, <1>9, <1>10

(* A task returns: it is idle, its locals are dropped, and so is its lock. *)
LEMMA ReturnTask ==
  ASSUME SwapInv, NEW p \in Procs, Return(p), UNCHANGED <<eng, was>>
  PROVE  TasksOK' /\ \A q \in Procs : TaskInv(q)'
<1>1. TasksOK'
  BY DEF SwapInv, TasksOK, Return, Goto, Places, LocInit, Locals, NamesOrNone, Programs
<1>2. TaskInv(p)'
  BY FreeTask DEF Return, Goto, SwapInv, TasksOK
<1>3. ASSUME NEW q \in Procs \ {p} PROVE TaskInv(q)'
  <2>1. pc'[q] = pc[q] /\ loc'[q] = loc[q] /\ (armLock = q => armLock' = q)
    BY DEF Return, Goto, SwapInv, TasksOK
  <2>2. QED
    BY <2>1, StillTask
<1>4. QED
  BY <1>1, <1>2, <1>3

(* Which tasks may be idle, and where boot and the follower may be, after  *)
(* a step of a task that is not waiting at boot.                           *)
LEMMA BootKept ==
  ASSUME SwapInv, NEW p \in Procs, UNCHANGED up,
         pc[p] \notin {"idle", "restore"}, pc[Boot] = "restore" => UNCHANGED <<eng, info>>,
         NEW at \in Places, pc' = [pc EXCEPT ![p] = at],
         at \notin {"restore", "waitCurrent"},
         at \in {"idle", "syncRead", "syncWrite", "catalog"} \/ p \in Handlers
  PROVE  BootAlone'
BY HotSwapConstants DEF SwapInv, BootAlone, TasksOK, Procs

(* Steps of a task that leave the buffers and the phase alone.             *)
LEMMA StoreStep ==
  ASSUME SwapInv, NEW p \in Procs, PutMeta(p) \/ Remove(p)
  PROVE  SwapInv'
<1>1. UNCHANGED <<eng, info, was, ptr, up>> /\ Return(p)
  BY DEF PutMeta, Remove
<1>2. BufferInv' /\ TasksOK' /\ \A q \in Procs : TaskInv(q)'
  BY <1>1, BuffersKept, ReturnTask
<1>3. BootAlone'
  BY <1>1, BootKept DEF Return, Goto, PutMeta, Remove, Places
<1>4. StoreOK' /\ PointerHasRun'
  <2>1. CASE PutMeta(p)
    <3>1. loc[p].pkg \in Packages
      BY <2>1 DEF PutMeta, SwapInv, TaskInv, LocalsOK
    <3>2. QED
      BY <2>1, <3>1 DEF PutMeta, SwapInv, StoreOK, PointerHasRun, Programs, Ids
  <2>2. CASE Remove(p)
    BY <2>2 DEF Remove, SwapInv, StoreOK, PointerHasRun, Programs
  <2>3. QED BY <2>1, <2>2
<1>5. QED
  BY <1>2, <1>3, <1>4 DEF SwapInv

(* A step that leaves the disk alone keeps what is known of the store and  *)
(* its pointers.                                                           *)
LEMMA DiskKept ==
  ASSUME SwapInv, UNCHANGED disk, was \subseteq was', was' \in SUBSET Ids
  PROVE  StoreOK' /\ PointerHasRun'
BY DEF SwapInv, StoreOK, PointerHasRun, disk

(* Only a request handler is at a place of the arm and activate handlers.  *)
LEMMA HandlerPlaces ==
  ASSUME SwapInv, NEW p \in Procs,
         pc[p] \in {"putMeta", "remove", "armLock", "armBegin", "armPrepare", "activate", "poll"}
  PROVE  p \in Handlers /\ pc[Boot] # "restore"
BY HotSwapConstants DEF SwapInv, BootAlone, Procs

(* The arm lock is taken, or the arm ends because B has the program.       *)
LEMMA ArmLockStep ==
  ASSUME SwapInv, NEW p \in Procs, ArmLock(p)
  PROVE  SwapInv'
<1>1. UNCHANGED <<eng, info, was, disk, up>> /\ p \in Handlers /\ pc[Boot] # "restore"
  BY HandlerPlaces DEF ArmLock
<1>2. BufferInv' /\ StoreOK' /\ PointerHasRun'
  BY <1>1, BuffersKept, DiskKept DEF SwapInv, StoreOK
<1>3. CASE SameProgram(info.armed, loc[p].meta)
  <2>1. Return(p)
    BY <1>3 DEF ArmLock
  <2>2. TasksOK' /\ \A q \in Procs : TaskInv(q)'
    BY <1>1, <2>1, ReturnTask
  <2>3. BootAlone'
    BY <1>1, <2>1, BootKept DEF Return, Goto, ArmLock, Places
  <2>4. QED
    BY <1>2, <2>2, <2>3 DEF SwapInv
<1>4. CASE ~SameProgram(info.armed, loc[p].meta)
  <2>1. /\ armLock = None /\ armLock' = p /\ UNCHANGED loc /\ pc[p] = "armLock"
        /\ pc' = [pc EXCEPT ![p] = "armBegin"]
    BY <1>4 DEF ArmLock, Goto
  <2>2. TasksOK'
    BY <2>1 DEF SwapInv, TasksOK, Places
  <2>3. BootAlone'
    BY <1>1, <2>1, BootKept DEF Places
  <2>4. TaskInv(p)'
    BY <2>1 DEF SwapInv, TasksOK, TaskInv, LocalsOK, LockHeld, ArmingIsCurrent,
       ActivateHasB, SnapHasRun
  <2>5. ASSUME NEW q \in Procs \ {p} PROVE TaskInv(q)'
    BY <1>1, <2>1, StillTask, HotSwapConstants DEF SwapInv, TasksOK
  <2>6. QED
    BY <1>2, <2>2, <2>3, <2>4, <2>5 DEF SwapInv
<1>5. QED BY <1>3, <1>4

(* sync_layouts_after_step finds nothing to promote between two steps.     *)
LEMMA LayoutsInStep ==
  ASSUME SwapInv PROVE SyncLayouts(eng, info) = info
BY DEF SwapInv, BufferInv, InfoMatchesEngine, SyncLayouts

(* A change of the phase alone keeps the buffers.                          *)
LEMMA PhaseKept ==
  ASSUME SwapInv, UNCHANGED <<info, was>>,
         NEW ph \in {"Idle", "Validating", "Armed"}, eng' = [eng EXCEPT !.phase = ph]
  PROVE  /\ BufferInv'
         /\ eng'.cur = eng.cur /\ eng'.armed = eng.armed /\ eng'.req = eng.req
<1>1. /\ eng'.cur = eng.cur /\ eng'.vm = eng.vm /\ eng'.armed = eng.armed
      /\ eng'.req = eng.req
      /\ eng' \in [cur : Programs, vm : Cells, armed : Prepared \cup {None},
                   phase : {"Idle", "Validating", "Armed"}, req : BOOLEAN]
  BY DEF SwapInv, BufferInv, EngineOK
<1>2. QED
  BY <1>1 DEF SwapInv, BufferInv, EngineOK, InfoMatchesEngine, ArmedFitsCurrent,
     CurrentHasRun

(* As StillTask, for a step that changes the phase.                        *)
LEMMA StillTaskPhase ==
  ASSUME SwapInv, NEW p \in Procs, pc'[p] = pc[p], loc'[p] = loc[p],
         eng'.cur = eng.cur, eng'.armed = eng.armed, eng'.req = eng.req,
         was \subseteq was', armLock = p => armLock' = p
  PROVE  TaskInv(p)'
BY DEF SwapInv, TaskInv, LocalsOK, LockHeld, ArmingIsCurrent, ActivateHasB, SnapHasRun

(* begin_arm takes the context, or is refused while an activate is pending. *)
LEMMA BeginArmStep ==
  ASSUME SwapInv, NEW p \in Procs, BeginArm(p)
  PROVE  SwapInv'
<1>1. /\ UNCHANGED <<was, disk, up>> /\ p \in Handlers /\ pc[Boot] # "restore"
      /\ pc[p] = "armBegin"
  BY HandlerPlaces DEF BeginArm
<1>2. StoreOK' /\ PointerHasRun'
  BY <1>1, DiskKept DEF SwapInv, StoreOK
<1>3. CASE eng.req
  <2>1. Return(p) /\ UNCHANGED <<eng, info>>
    BY <1>3 DEF BeginArm, ArmRefused
  <2>2. TasksOK' /\ \A q \in Procs : TaskInv(q)'
    BY <1>1, <2>1, ReturnTask
  <2>3. BootAlone'
    BY <1>1, <2>1, BootKept DEF Return, Goto, Places
  <2>4. BufferInv'
    BY <1>1, <2>1, BuffersKept
  <2>5. QED
    BY <1>2, <2>2, <2>3, <2>4 DEF SwapInv
<1>4. CASE ~eng.req
  <2> DEFINE c == [cur |-> info.cur, bytes |-> eng.vm]
             l == [loc[p] EXCEPT !.ctx = c]
  <2>1. /\ UNCHANGED <<info, armLock>> /\ eng' = [eng EXCEPT !.phase = "Validating"]
        /\ loc' = [loc EXCEPT ![p].ctx = [cur |-> info.cur, bytes |-> eng.vm]]
        /\ pc' = [pc EXCEPT ![p] = "armPrepare"]
    BY <1>4, LayoutsInStep DEF BeginArm, ArmRefused, Goto
  <2>2. BufferInv' /\ eng'.cur = eng.cur /\ eng'.armed = eng.armed /\ eng'.req = eng.req
    BY <1>1, <2>1, PhaseKept
  <2>3. c \in Contexts /\ c.bytes \in Layout(c.cur) /\ c.cur = eng.cur
    BY DEF SwapInv, BufferInv, EngineOK, InfoMatchesEngine, Contexts
  <2>4. loc[p] \in Locals
    BY DEF SwapInv, TasksOK
  <2>5. l \in Locals /\ l.ctx = c /\ l.pkg = loc[p].pkg
    BY <2>3, <2>4 DEF Locals
  <2>6. loc' = [loc EXCEPT ![p] = l]
    BY <2>1
  <2> HIDE DEF l, c
  <2>7. TasksOK'
    BY <2>1, <2>5, <2>6 DEF SwapInv, TasksOK, Places
  <2>8. BootAlone'
    BY <1>1, <2>1, BootKept DEF Places
  <2>9. TaskInv(p)'
    BY <1>1, <1>4, <2>1, <2>2, <2>3, <2>5, <2>6 DEF SwapInv, TasksOK, TaskInv, LocalsOK,
       LockHeld, ArmingIsCurrent, ActivateHasB, SnapHasRun
  <2>10. ASSUME NEW q \in Procs \ {p} PROVE TaskInv(q)'
    BY <1>1, <2>1, <2>2, <2>6, StillTaskPhase DEF SwapInv, TasksOK
  <2>11. QED
    BY <1>2, <2>2, <2>7, <2>8, <2>9, <2>10 DEF SwapInv
<1>5. QED BY <1>3, <1>4

(* abort_arm gives the phase back.                                         *)
LEMMA AbortArmStep ==
  ASSUME SwapInv, NEW p \in Procs, AbortArm(p)
  PROVE  SwapInv'
<1>1. /\ UNCHANGED <<info, was, disk, up>> /\ p \in Handlers /\ pc[Boot] # "restore"
      /\ pc[p] = "armPrepare" /\ Return(p)
  BY HandlerPlaces DEF AbortArm
<1>2. StoreOK' /\ PointerHasRun'
  BY <1>1, DiskKept DEF SwapInv, StoreOK
<1>3. PICK ph \in {"Idle", "Validating", "Armed"} : eng' = [eng EXCEPT !.phase = ph]
  <2>1. CASE eng.phase = "Validating"
    BY <2>1 DEF AbortArm, AbortedPhase
  <2>2. CASE eng.phase # "Validating"
    <3>1. eng' = eng /\ eng.phase \in {"Idle", "Validating", "Armed"}
      BY <2>2 DEF AbortArm, SwapInv, BufferInv, EngineOK
    <3>2. eng' = [eng EXCEPT !.phase = eng.phase]
      BY <3>1 DEF SwapInv, BufferInv, EngineOK
    <3>3. QED BY <3>1, <3>2
  <2>3. QED BY <2>1, <2>2
<1>4. BufferInv' /\ eng'.cur = eng.cur /\ eng'.armed = eng.armed /\ eng'.req = eng.req
  BY <1>1, <1>3, PhaseKept
<1>5. TasksOK'
  BY <1>1 DEF SwapInv, TasksOK, Return, Goto, Places, LocInit, Locals, NamesOrNone, Programs
<1>6. TaskInv(p)'
  BY <1>1, FreeTask DEF Return, Goto, SwapInv, TasksOK
<1>7. ASSUME NEW q \in Procs \ {p} PROVE TaskInv(q)'
  <2>1. pc'[q] = pc[q] /\ loc'[q] = loc[q] /\ (armLock = q => armLock' = q)
    BY <1>1 DEF Return, Goto, SwapInv, TasksOK
  <2>2. QED
    BY <1>1, <1>4, <2>1, StillTaskPhase
<1>8. BootAlone'
  BY <1>1, BootKept DEF Return, Goto, Places
<1>9. QED
  BY <1>2, <1>4, <1>5, <1>6, <1>7, <1>8 DEF SwapInv

(* commit_arm fills B with what was prepared: the context is still that of *)
(* the running program.                                                    *)
LEMMA CommitArmStep ==
  ASSUME SwapInv, NEW p \in Procs, CommitArm(p)
  PROVE  SwapInv'
<1> DEFINE k == loc[p].pkg
           b == BuildPrepared(k, loc[p].ctx)
<1>1. /\ UNCHANGED <<was, disk, up, armLock>> /\ p \in Handlers /\ pc[Boot] # "restore"
      /\ pc[p] = "armPrepare" /\ pc' = [pc EXCEPT ![p] = "syncRead"]
      /\ loc' = [loc EXCEPT ![p] = LocInit]
  BY HandlerPlaces DEF CommitArm, Goto
<1>2. StoreOK' /\ PointerHasRun'
  BY <1>1, DiskKept DEF SwapInv, StoreOK
<1>3. /\ k \in Packages /\ loc[p].ctx \in Contexts
      /\ loc[p].ctx.bytes \in Layout(loc[p].ctx.cur)
      /\ loc[p].ctx.cur = eng.cur /\ ~eng.req /\ armLock = p
  BY <1>1 DEF SwapInv, TaskInv, LocalsOK, ArmingIsCurrent, LockHeld
<1>4. /\ b \in Prepared /\ b # None /\ b.pkg = k
      /\ b.copies = RetainCopies(eng.cur, k)
      /\ b.policy = ResolveRestart(eng.cur, k)
      /\ b.image \in Layout(k)
  BY <1>3, BuildPreparedType
<1>5. eng' = [eng EXCEPT !.armed = b, !.phase = "Armed", !.req = FALSE]
  BY DEF CommitArm, EngineArm
<1>6. info' = [info EXCEPT !.armed = k]
  BY DEF CommitArm
<1> HIDE DEF b, k
<1>7. /\ eng' \in [cur : Programs, vm : Cells, armed : Prepared \cup {None},
                   phase : {"Idle", "Validating", "Armed"}, req : BOOLEAN]
      /\ eng'.cur = eng.cur /\ eng'.vm = eng.vm /\ eng'.armed = b /\ ~eng'.req
  BY <1>4, <1>5 DEF SwapInv, BufferInv, EngineOK
<1>8. /\ info' \in [cur : Programs, armed : Programs]
      /\ info'.cur = info.cur /\ info'.armed = k
  BY <1>3, <1>6 DEF SwapInv, BufferInv, Programs, k
<1>9. BufferInv'
  BY <1>1, <1>4, <1>7, <1>8 DEF SwapInv, BufferInv, EngineOK, InfoMatchesEngine,
     ArmedFitsCurrent, CurrentHasRun
<1>10. TasksOK'
  BY <1>1 DEF SwapInv, TasksOK, Places, LocInit, Locals, NamesOrNone, Programs
<1>11. TaskInv(p)'
  BY <1>1, FreeTask DEF SwapInv, TasksOK
<1>12. ASSUME NEW q \in Procs \ {p} PROVE TaskInv(q)'
  <2>1. pc'[q] = pc[q] /\ loc'[q] = loc[q]
    BY <1>1 DEF SwapInv, TasksOK
  <2>2. pc[q] \notin {"armBegin", "armPrepare", "activate"}
    BY <1>3 DEF SwapInv, TaskInv, LockHeld
  <2>3. QED
    BY <1>1, <2>1, <2>2 DEF SwapInv, TaskInv, LocalsOK, LockHeld, ArmingIsCurrent,
       ActivateHasB, SnapHasRun
<1>13. BootAlone'
  BY <1>1, BootKept DEF Places
<1>14. QED
  BY <1>2, <1>9, <1>10, <1>11, <1>12, <1>13 DEF SwapInv

(* request_activate: B is dropped or the request is set.                   *)
LEMMA ActivateStep ==
  ASSUME SwapInv, NEW p \in Procs, Activate(p)
  PROVE  SwapInv'
<1>1. /\ UNCHANGED <<was, disk, up, loc>> /\ p \in Handlers /\ pc[Boot] # "restore"
      /\ pc[p] = "activate" /\ armLock' = None
  BY HandlerPlaces DEF Activate
<1>2. StoreOK' /\ PointerHasRun'
  BY <1>1, DiskKept DEF SwapInv, StoreOK
<1>3. ~eng.req /\ eng.armed # None /\ armLock = p
  BY <1>1 DEF SwapInv, TaskInv, ActivateHasB, LockHeld
<1>4. PICK at \in {"poll", "syncRead"} : pc' = [pc EXCEPT ![p] = at]
  BY DEF Activate, Goto
<1>5. BufferInv'
  <2>1. CASE SameProgram(eng.cur, eng.armed.pkg)
    <3>1. eng' = [eng EXCEPT !.armed = None, !.req = FALSE, !.phase = "Idle"]
      BY <2>1 DEF Activate, RequestActivate
    <3>2. /\ eng' \in [cur : Programs, vm : Cells, armed : Prepared \cup {None},
                       phase : {"Idle", "Validating", "Armed"}, req : BOOLEAN]
          /\ eng'.cur = eng.cur /\ eng'.vm = eng.vm /\ eng'.armed = None
      BY <3>1 DEF SwapInv, BufferInv, EngineOK
    <3>3. info' = [info EXCEPT !.armed = None]
      BY <3>2 DEF Activate
    <3>4. QED
      BY <1>1, <3>2, <3>3 DEF SwapInv, BufferInv, EngineOK, InfoMatchesEngine,
         ArmedFitsCurrent, CurrentHasRun, Programs
  <2>2. CASE ~SameProgram(eng.cur, eng.armed.pkg)
    <3>1. eng' = [eng EXCEPT !.req = TRUE]
      BY <2>2 DEF Activate, RequestActivate
    <3>2. /\ eng' \in [cur : Programs, vm : Cells, armed : Prepared \cup {None},
                       phase : {"Idle", "Validating", "Armed"}, req : BOOLEAN]
          /\ eng'.cur = eng.cur /\ eng'.vm = eng.vm /\ eng'.armed = eng.armed
      BY <3>1 DEF SwapInv, BufferInv, EngineOK
    <3>3. info' = info
      BY <1>3, <3>2 DEF Activate
    <3>4. QED
      BY <1>1, <3>2, <3>3 DEF SwapInv, BufferInv, EngineOK, InfoMatchesEngine,
         ArmedFitsCurrent, CurrentHasRun
  <2>3. QED BY <2>1, <2>2
<1>6. TasksOK'
  BY <1>1, <1>4 DEF SwapInv, TasksOK, Places
<1>7. TaskInv(p)'
  BY <1>4, FreeTask DEF SwapInv, TasksOK
<1>8. ASSUME NEW q \in Procs \ {p} PROVE TaskInv(q)'
  <2>1. pc'[q] = pc[q] /\ loc'[q] = loc[q]
    BY <1>1, <1>4 DEF SwapInv, TasksOK
  <2>2. pc[q] \notin {"armBegin", "armPrepare", "activate"}
    BY <1>3 DEF SwapInv, TaskInv, LockHeld
  <2>3. QED
    BY <1>1, <2>1, <2>2 DEF SwapInv, TaskInv, LocalsOK, LockHeld, ArmingIsCurrent,
       ActivateHasB, SnapHasRun
<1>9. BootAlone'
  BY <1>1, <1>4, BootKept DEF Places
<1>10. QED
  BY <1>2, <1>5, <1>6, <1>7, <1>8, <1>9 DEF SwapInv

(* The wait for the swap ends; the follower sees a new key.                *)
LEMMA PollStep ==
  ASSUME SwapInv, Follow \/ \E p \in Procs : Poll(p)
  PROVE  SwapInv'
<1>1. UNCHANGED <<eng, info, was, disk, up, loc, armLock>>
  BY DEF Poll, Follow
<1>2. BufferInv' /\ StoreOK' /\ PointerHasRun'
  BY <1>1, BuffersKept, DiskKept DEF SwapInv, StoreOK
<1>3. PICK p \in Procs : /\ pc' = [pc EXCEPT ![p] = "syncRead"]
                         /\ p = Follower \/ (p \in Handlers /\ pc[p] = "poll")
  <2>1. CASE Follow
    <3>1. Follower \in Procs
      BY DEF Procs
    <3>2. pc' = [pc EXCEPT ![Follower] = "syncRead"]
      BY <2>1 DEF Follow, Goto
    <3>3. QED BY <3>1, <3>2, Zenon
  <2>2. ASSUME NEW p \in Procs, Poll(p)
        PROVE  p \in Handlers /\ pc[p] = "poll" /\ pc' = [pc EXCEPT ![p] = "syncRead"]
    BY <2>2, HandlerPlaces DEF Poll, Goto
  <2>3. QED BY <2>1, <2>2
<1>4. TasksOK'
  BY <1>1, <1>3 DEF SwapInv, TasksOK, Places
<1>5. BootAlone'
  BY <1>1, <1>3, HotSwapConstants DEF SwapInv, BootAlone, TasksOK, Procs
<1>6. TaskInv(p)'
  BY <1>3, FreeTask DEF SwapInv, TasksOK
<1>7. ASSUME NEW q \in Procs \ {p} PROVE TaskInv(q)'
  BY <1>1, <1>3, StillTask DEF SwapInv, TasksOK
<1>8. QED
  BY <1>2, <1>4, <1>5, <1>6, <1>7 DEF SwapInv

(* sync_program_pointers: the snapshot names the current program, which    *)
(* has run, and the history only grows before it is written.               *)
LEMMA SyncStep ==
  ASSUME SwapInv, NEW p \in Procs, SyncRead(p) \/ SyncWrite(p)
  PROVE  SwapInv'
<1>1. UNCHANGED <<eng, info, was, up>>
  BY DEF SyncRead, SyncWrite
<1>2. BufferInv'
  BY <1>1, BuffersKept
<1>3. CASE SyncRead(p)
  <2> DEFINE n == [current |-> IdOf(info.cur), armed |-> IdOf(info.armed)]
             l == [loc[p] EXCEPT !.snap = n]
  <2>1. /\ UNCHANGED <<disk, armLock>> /\ pc[p] = "syncRead"
        /\ loc' = [loc EXCEPT ![p].snap = n]
        /\ pc' = [pc EXCEPT ![p] = "syncWrite"]
    BY <1>3 DEF SyncRead, Goto
  <2>2. IdOf(info.cur) \in NamesOrNone /\ IdOf(info.armed) \in NamesOrNone
    BY DEF SwapInv, BufferInv, IdOf, NamesOrNone, Programs, Ids
  <2>3. n \in Snapshots /\ n.current = IdOf(info.cur)
    BY <2>2 DEF Snapshots
  <2>4. n.current \in was \cup {None}
    BY <2>3 DEF SwapInv, BufferInv, InfoMatchesEngine, CurrentHasRun, IdOf
  <2>5. loc[p] \in Locals
    BY DEF SwapInv, TasksOK
  <2> HIDE DEF n
  <2>6. l \in Locals /\ l.snap = n
    BY <2>3, <2>5 DEF Locals
  <2>7. loc' = [loc EXCEPT ![p] = l]
    BY <2>1
  <2> HIDE DEF l
  <2>8. StoreOK' /\ PointerHasRun'
    BY <1>1, <2>1, DiskKept DEF SwapInv, StoreOK
  <2>9. TasksOK'
    BY <2>1, <2>6, <2>7 DEF SwapInv, TasksOK, Places
  <2>10. BootAlone'
    BY <1>1, <2>1, BootKept DEF Places
  <2>11. TaskInv(p)'
    BY <1>1, <2>1, <2>3, <2>4, <2>6, <2>7 DEF SwapInv, TasksOK, TaskInv, LocalsOK, LockHeld,
       ArmingIsCurrent, ActivateHasB, SnapHasRun
  <2>12. ASSUME NEW q \in Procs \ {p} PROVE TaskInv(q)'
    BY <1>1, <2>1, <2>7, StillTask DEF SwapInv, TasksOK
  <2>13. QED
    BY <1>2, <2>8, <2>9, <2>10, <2>11, <2>12 DEF SwapInv
<1>4. CASE SyncWrite(p)
  <2>1. /\ UNCHANGED <<pkgFile, metaFile>> /\ pc[p] = "syncWrite" /\ ptr' = loc[p].snap
        /\ loc' = [loc EXCEPT ![p] = LocInit]
    BY <1>4 DEF SyncWrite, Return
  <2>2. PICK at \in {"idle", "catalog"} : pc' = [pc EXCEPT ![p] = at]
    BY <1>4 DEF SyncWrite, Return, Goto
  <2>3. armLock' \in Procs \cup {None} /\ \A q \in Procs \ {p} : armLock = q => armLock' = q
    BY <1>4 DEF SyncWrite, Return, SwapInv, TasksOK
  <2>4. loc[p].snap \in Snapshots /\ loc[p].snap.current \in was \cup {None}
    BY <2>1 DEF SwapInv, TaskInv, LocalsOK, SnapHasRun
  <2>5. StoreOK' /\ PointerHasRun'
    BY <1>1, <2>1, <2>4 DEF SwapInv, StoreOK, PointerHasRun
  <2>6. TasksOK'
    BY <2>1, <2>2, <2>3 DEF SwapInv, TasksOK, Places, LocInit, Locals, NamesOrNone, Programs
  <2>7. BootAlone'
    BY <1>1, <2>1, <2>2, BootKept DEF Places
  <2>8. TaskInv(p)'
    BY <2>2, FreeTask DEF SwapInv, TasksOK
  <2>9. ASSUME NEW q \in Procs \ {p} PROVE TaskInv(q)'
    BY <1>1, <2>1, <2>2, <2>3, StillTask DEF SwapInv, TasksOK
  <2>10. QED
    BY <1>2, <2>5, <2>6, <2>7, <2>8, <2>9 DEF SwapInv
<1>5. QED BY <1>3, <1>4

(* The catalog is pushed; after boot's own, requests are served.           *)
LEMMA CatalogStep ==
  ASSUME SwapInv, NEW p \in Procs, PushCatalog(p)
  PROVE  SwapInv'
<1>1. UNCHANGED <<eng, info, was, disk>> /\ Return(p) /\ pc[p] = "catalog"
  BY DEF PushCatalog
<1>2. BufferInv' /\ StoreOK' /\ PointerHasRun'
  BY <1>1, BuffersKept, DiskKept DEF SwapInv, StoreOK
<1>3. TasksOK' /\ \A q \in Procs : TaskInv(q)'
  BY <1>1, ReturnTask
<1>4. BootAlone'
  <2>1. pc' = [pc EXCEPT ![p] = "idle"]
    BY <1>1 DEF Return, Goto
  <2>2. CASE p = Boot
    BY <1>1, <2>1, <2>2, HotSwapConstants
    DEF PushCatalog, SwapInv, BootAlone, TasksOK, Procs
  <2>3. CASE p # Boot
    BY <1>1, <2>1, <2>3, BootKept DEF PushCatalog, Places
  <2>4. QED BY <2>2, <2>3
<1>5. QED
  BY <1>2, <1>3, <1>4 DEF SwapInv

(* Steps of no task: the tasks' obligations stand when no arm or activate  *)
(* can be in progress, or the engine's programs do not change.             *)
LEMMA EngineMoves ==
  ASSUME SwapInv, NEW p \in Procs, UNCHANGED <<pc, loc, armLock>>, was \subseteq was',
         \/ eng.req
         \/ eng'.cur = eng.cur /\ eng'.armed = eng.armed /\ eng'.req = eng.req
  PROVE  TaskInv(p)'
BY DEF SwapInv, TaskInv, LocalsOK, LockHeld, ArmingIsCurrent, ActivateHasB, SnapHasRun

(* The running program writes a retain cell.                               *)
LEMMA RunStep ==
  ASSUME SwapInv, Run
  PROVE  SwapInv'
<1>1. PICK i \in DOMAIN eng.vm, v \in Values : eng' = [eng EXCEPT !.vm[i] = v]
  BY DEF Run
<1>2. UNCHANGED <<info, disk, armLock, pc, loc, up, was>>
  BY DEF Run
<1> DEFINE m == [eng.vm EXCEPT ![i] = v]
<1>3. m \in Layout(eng.cur)
  BY DEF SwapInv, BufferInv, EngineOK, Layout
<1>4. m \in Cells /\ eng' = [eng EXCEPT !.vm = m]
  BY <1>1, <1>3 DEF SwapInv, BufferInv, EngineOK, Cells
<1> HIDE DEF m
<1>5. /\ eng' \in [cur : Programs, vm : Cells, armed : Prepared \cup {None},
                   phase : {"Idle", "Validating", "Armed"}, req : BOOLEAN]
      /\ eng'.cur = eng.cur /\ eng'.vm = m /\ eng'.armed = eng.armed
      /\ eng'.req = eng.req
  BY <1>4 DEF SwapInv, BufferInv, EngineOK
<1>6. BufferInv'
  BY <1>2, <1>3, <1>5 DEF SwapInv, BufferInv, EngineOK, InfoMatchesEngine,
     ArmedFitsCurrent, CurrentHasRun
<1>7. pc[Boot] # "restore"
  BY <1>1 DEF SwapInv, BootAlone, EngineInit
<1>8. BootAlone' /\ TasksOK'
  BY <1>2, <1>7 DEF SwapInv, BootAlone, TasksOK
<1>9. StoreOK' /\ PointerHasRun'
  BY <1>2, DiskKept DEF SwapInv, StoreOK
<1>10. QED
  BY <1>2, <1>5, <1>6, <1>8, <1>9, EngineMoves DEF SwapInv

(* try_epoch_install: B becomes current, or stays armed for another try.   *)
LEMMA InstallStep ==
  ASSUME SwapInv, Install
  PROVE  SwapInv'
<1>1. UNCHANGED <<disk, armLock, pc, loc, up>> /\ eng.req /\ eng.armed # None
  BY DEF Install
<1>2. BufferInv
  BY DEF SwapInv
<1>3. ~BlitFails(eng) /\ BlitRetain(eng) \in Layout(eng.armed.pkg)
  BY <1>1, <1>2, BlitCarries
<1>4. eng.armed.pkg \in Packages
  BY <1>1, <1>2 DEF BufferInv, EngineOK, Prepared
<1>5. pc[Boot] # "restore"
  BY <1>1 DEF SwapInv, BootAlone, EngineInit
<1>6. BootAlone' /\ TasksOK'
  BY <1>1, <1>5 DEF SwapInv, BootAlone, TasksOK
<1>7. CASE eng' = [eng EXCEPT !.req = FALSE, !.phase = "Armed"]
  <2>1. /\ eng' \in [cur : Programs, vm : Cells, armed : Prepared \cup {None},
                     phase : {"Idle", "Validating", "Armed"}, req : BOOLEAN]
        /\ eng'.cur = eng.cur /\ eng'.vm = eng.vm /\ eng'.armed = eng.armed
    BY <1>2, <1>7 DEF BufferInv, EngineOK
  <2>2. info' = info /\ was' = was
    BY <1>1, <2>1 DEF Install, SyncLayouts
  <2>3. BufferInv'
    BY <1>2, <2>1, <2>2 DEF BufferInv, EngineOK, InfoMatchesEngine, ArmedFitsCurrent,
       CurrentHasRun
  <2>4. StoreOK' /\ PointerHasRun'
    BY <1>1, <2>2, DiskKept DEF SwapInv, StoreOK
  <2>5. QED
    BY <1>1, <1>6, <2>2, <2>3, <2>4, EngineMoves DEF SwapInv
<1>8. CASE eng' = [cur |-> eng.armed.pkg, vm |-> BlitRetain(eng),
                   armed |-> None, phase |-> "Idle", req |-> FALSE]
  <2>1. BlitRetain(eng) \in Cells /\ eng.armed.pkg \in Programs
    BY <1>3, <1>4 DEF Cells, Programs
  <2>2. /\ eng' \in [cur : Programs, vm : Cells, armed : Prepared \cup {None},
                     phase : {"Idle", "Validating", "Armed"}, req : BOOLEAN]
        /\ eng'.cur = eng.armed.pkg /\ eng'.vm = BlitRetain(eng) /\ eng'.armed = None
    BY <1>8, <2>1
  <2>3. eng'.cur # None
    BY <1>4, <2>2, HotSwapConstants
  <2>4. info' = [cur |-> eng.armed.pkg, armed |-> None]
    BY <1>1, <1>2, <1>4, <2>2, <2>3, HotSwapConstants
    DEF Install, SyncLayouts, BufferInv, InfoMatchesEngine
  <2>5. was' = was \cup {eng'.cur.id} /\ was' \in SUBSET Ids
    BY <1>4, <2>2 DEF Install, Ids, SwapInv, StoreOK
  <2>6. BufferInv'
    BY <1>3, <2>1, <2>2, <2>4, <2>5 DEF BufferInv, EngineOK, InfoMatchesEngine,
       ArmedFitsCurrent, CurrentHasRun, Programs
  <2>7. StoreOK' /\ PointerHasRun'
    BY <1>1, <2>5, DiskKept
  <2>8. QED
    BY <1>1, <1>6, <2>5, <2>6, <2>7, EngineMoves DEF SwapInv
<1>9. QED
  BY <1>3, <1>7, <1>8 DEF Install

(* Boot arms and activates the stored program in an empty runtime.         *)
LEMMA RestoreStep ==
  ASSUME SwapInv, Restore
  PROVE  SwapInv'
<1> DEFINE i == ptr.current
           k == pkgFile[i]
           ctx == [cur |-> info.cur, bytes |-> eng.vm]
           b == BuildPrepared(k, ctx)
<1>1. /\ UNCHANGED <<pkgFile, ptr, armLock, loc, was>> /\ pc[Boot] = "restore"
      /\ Boot \in Procs
  BY DEF Restore, Procs
<1>2. /\ eng = EngineInit /\ info = InfoInit
      /\ \A p \in Handlers : pc[p] = "idle"
  BY <1>1 DEF SwapInv, BootAlone
<1>3. PICK at \in {"idle", "waitCurrent"} : pc' = [pc EXCEPT ![Boot] = at]
  BY DEF Restore, Goto
<1>4. TasksOK'
  BY <1>1, <1>3 DEF SwapInv, TasksOK, Places
<1>5. TaskInv(Boot)'
  BY <1>1, <1>3, FreeTask DEF SwapInv, TasksOK
<1>6. ASSUME NEW q \in Procs \ {Boot} PROVE TaskInv(q)'
  <2>1. pc'[q] = pc[q] /\ loc'[q] = loc[q] /\ pc[q] \notin {"armBegin", "armPrepare", "activate"}
    BY <1>1, <1>2, <1>3, HotSwapConstants DEF SwapInv, TasksOK, BootAlone, Procs
  <2>2. QED
    BY <1>1, <2>1 DEF SwapInv, TaskInv, LocalsOK, LockHeld, ArmingIsCurrent,
       ActivateHasB, SnapHasRun
<1>7. CASE UNCHANGED <<eng, info, metaFile>> /\ pc' = [pc EXCEPT ![Boot] = "idle"]
  <2>1. BufferInv' /\ StoreOK' /\ PointerHasRun'
    BY <1>1, <1>7, BuffersKept, DiskKept DEF SwapInv, StoreOK, disk
  <2>2. BootAlone'
    BY <1>1, <1>2, <1>3, <1>7, HotSwapConstants DEF SwapInv, BootAlone, TasksOK, Procs
  <2>3. QED
    BY <1>4, <1>5, <1>6, <2>1, <2>2 DEF SwapInv
<1>8. CASE /\ i # None /\ Stored(i) /\ UNCHANGED up
           /\ metaFile' = [metaFile EXCEPT ![i] = pkgFile[i]]
           /\ eng' = RequestActivate(EngineArm(eng, b))
           /\ info' = [info EXCEPT !.armed = pkgFile[i]]
  <2>1. i \in Ids /\ k \in Packages
    BY <1>8 DEF SwapInv, StoreOK, Snapshots, NamesOrNone, Stored, Programs
  <2>2. ctx \in Contexts /\ ctx.bytes \in Layout(ctx.cur) /\ ctx.cur = None
    BY <1>2 DEF SwapInv, BufferInv, EngineOK, InfoMatchesEngine, Contexts, InfoInit
  <2> HIDE DEF ctx
  <2>3. /\ b \in Prepared /\ b # None /\ b.pkg = k
        /\ b.copies = RetainCopies(None, k)
        /\ b.policy = ResolveRestart(None, k)
        /\ b.image \in Layout(k)
    BY <2>1, <2>2, BuildPreparedType
  <2> HIDE DEF b, k
  <2>4. eng' = [cur |-> None, vm |-> <<>>, armed |-> b, phase |-> "Armed", req |-> TRUE]
    BY <1>2, <1>8 DEF EngineInit, EngineArm, RequestActivate, SameProgram
  <2>5. info' = [cur |-> None, armed |-> k]
    BY <1>2, <1>8 DEF InfoInit, k
  <2>6. <<>> \in Layout(None) /\ <<>> \in Cells /\ None \in Programs /\ k \in Programs
    BY <2>1 DEF Layout, Offsets, Cells, Programs, k
  <2>7. BufferInv'
    BY <2>3, <2>4, <2>5, <2>6 DEF BufferInv, EngineOK, InfoMatchesEngine,
       ArmedFitsCurrent, CurrentHasRun
  <2>8. StoreOK' /\ PointerHasRun'
    BY <1>1, <1>8, <2>1 DEF SwapInv, StoreOK, PointerHasRun, Programs
  <2>9. BootAlone'
    BY <1>1, <1>2, <1>3, <1>8, HotSwapConstants DEF SwapInv, BootAlone, TasksOK, Procs
  <2>10. QED
    BY <1>4, <1>5, <1>6, <2>7, <2>8, <2>9 DEF SwapInv
<1>9. QED
  BY <1>3, <1>7, <1>8 DEF Restore, Goto

(* Boot has its program, or gives up.                                      *)
LEMMA WaitStep ==
  ASSUME SwapInv, WaitCurrent
  PROVE  SwapInv'
<1>1. /\ UNCHANGED <<eng, info, was, disk, loc, armLock>> /\ pc[Boot] = "waitCurrent"
      /\ Boot \in Procs
  BY DEF WaitCurrent, Procs
<1>2. PICK at \in {"idle", "syncRead"} : /\ pc' = [pc EXCEPT ![Boot] = at]
                                         /\ up' \in {up, "down"}
  BY DEF WaitCurrent, Goto
<1>3. BufferInv' /\ StoreOK' /\ PointerHasRun'
  BY <1>1, BuffersKept, DiskKept DEF SwapInv, StoreOK
<1>4. TasksOK'
  BY <1>1, <1>2 DEF SwapInv, TasksOK, Places
<1>5. TaskInv(Boot)'
  BY <1>1, <1>2, FreeTask DEF SwapInv, TasksOK
<1>6. ASSUME NEW q \in Procs \ {Boot} PROVE TaskInv(q)'
  BY <1>1, <1>2, StillTask DEF SwapInv, TasksOK
<1>7. BootAlone'
  BY <1>1, <1>2, HotSwapConstants DEF SwapInv, BootAlone, TasksOK, Procs
<1>8. QED
  BY <1>3, <1>4, <1>5, <1>6, <1>7 DEF SwapInv

(* Every step keeps the invariant.                                         *)
LEMMA NextSwap == SwapInv /\ [Next]_vars => SwapInv'
<1> SUFFICES ASSUME SwapInv, [Next]_vars PROVE SwapInv'
  OBVIOUS
<1>1. CASE Restart
  <2>1. StoreOK' /\ PointerHasRun'
    BY <1>1, DiskKept DEF Restart, SwapInv, StoreOK
  <2>2. QED
    BY <1>1, <2>1, FreshRuntime DEF Restart
<1>2. CASE UNCHANGED vars
  <2>1. BufferInv' /\ StoreOK' /\ PointerHasRun'
    BY <1>2, BuffersKept, DiskKept DEF SwapInv, StoreOK, vars, disk
  <2>2. TasksOK' /\ BootAlone'
    BY <1>2 DEF vars, SwapInv, TasksOK, BootAlone
  <2>3. QED
    BY <1>2, <2>1, <2>2, StillTask DEF vars, SwapInv
<1>3. ASSUME NEW p \in Procs, HandlerStep(p) PROVE SwapInv'
  BY <1>3, StoreStep, ArmLockStep, BeginArmStep, AbortArmStep, CommitArmStep,
     ActivateStep, PollStep, SyncStep, CatalogStep DEF HandlerStep
<1>4. QED
  BY <1>1, <1>2, <1>3, RequestStep, PollStep, RunStep, InstallStep, RestoreStep, WaitStep
  DEF Next

----------------------------------------------------------------------------
(* Theorems.                                                               *)

(* The inductive invariant holds throughout.                               *)
THEOREM SwapInvariant == Spec => []SwapInv
BY InitSwap, NextSwap, PTL DEF Spec

(* The loader's records of the two buffers agree with the engine's between *)
(* any two steps: a commit inferred by sync_layouts_after_step is one.     *)
THEOREM InfoAgrees == Spec => []InfoMatchesEngine
<1>1. SwapInv => InfoMatchesEngine
  BY DEF SwapInv, BufferInv
<1>2. QED
  BY <1>1, SwapInvariant, PTL

(* What commit_arm puts into B was prepared from the running program,      *)
(* although prepare_arm runs without the runtime mutex.                    *)
THEOREM ArmedFits == Spec => []ArmedFitsCurrent
<1>1. SwapInv => ArmedFitsCurrent
  BY DEF SwapInv, BufferInv
<1>2. QED
  BY <1>1, SwapInvariant, PTL

(* Whatever handlers and the follower race to write it, and wherever the   *)
(* process dies, the pointer "current" names a program that has run.       *)
THEOREM PointersHaveRun == Spec => []PointerHasRun
<1>1. SwapInv => PointerHasRun
  BY DEF SwapInv
<1>2. QED
  BY <1>1, SwapInvariant, PTL

(* The scan thread installs B with the last values, or defers.             *)
LEMMA InstallOrDefer ==
  ASSUME SwapInv, Install
  PROVE  \/ Defers
         \/ /\ Installs
            /\ \A c \in RetainCopies(eng.cur, eng'.cur) : eng'.vm[c[2]] = eng.vm[c[1]]
<1>1. eng.armed # None /\ BufferInv
  BY DEF Install, SwapInv
<1>2. /\ ~BlitFails(eng)
      /\ \A c \in RetainCopies(eng.cur, eng.armed.pkg) :
           BlitRetain(eng)[c[2]] = eng.vm[c[1]]
  BY <1>1, BlitCarries
<1>3. CASE eng' = [eng EXCEPT !.req = FALSE, !.phase = "Armed"]
  BY <1>1, <1>3 DEF BufferInv, EngineOK, Defers
<1>4. CASE eng' = [cur |-> eng.armed.pkg, vm |-> BlitRetain(eng),
                   armed |-> None, phase |-> "Idle", req |-> FALSE]
  BY <1>2, <1>4 DEF Installs
<1>5. QED
  BY <1>2, <1>3, <1>4 DEF Install

(* An install carries every retain symbol both programs declare, however   *)
(* many writes and refused arms came after B was armed, and never faults.  *)
THEOREM SwapCarriesRetain == Spec => RetainCarried
<1> DEFINE Carried ==
      Install => \/ Defers
                 \/ /\ Installs
                    /\ \A c \in RetainCopies(eng.cur, eng'.cur) : eng'.vm[c[2]] = eng.vm[c[1]]
<1>1. SwapInv /\ [Next]_vars => [Carried]_vars
  BY InstallOrDefer
<1>2. QED
  BY <1>1, SwapInvariant, PTL DEF Spec, RetainCarried

(* While an activate is pending no arm, abort, second activate or boot     *)
(* step withdraws it or touches buffer B: the scan thread installs B or    *)
(* defers and keeps it armed, or the process dies.                         *)
THEOREM PendingIsKept == Spec => PendingKept
<1> DEFINE Kept == eng.req => \/ eng'.req /\ eng'.armed = eng.armed
                              \/ Install /\ (Installs \/ Defers)
                              \/ Restart
<1>1. ASSUME SwapInv, Next, eng.req
      PROVE  \/ eng'.req /\ eng'.armed = eng.armed
             \/ Install /\ (Installs \/ Defers)
             \/ Restart
  <2>1. ASSUME NEW p \in Procs, HandlerStep(p) PROVE eng' = eng
    <3>1. pc[p] \notin {"armPrepare", "activate"}
      BY <1>1 DEF SwapInv, TaskInv, ArmingIsCurrent, ActivateHasB
    <3>2. QED
      BY <1>1, <2>1, <3>1 DEF HandlerStep, PutMeta, Remove, ArmLock, BeginArm, ArmRefused,
         AbortArm, CommitArm, Activate, Poll, SyncRead, SyncWrite, PushCatalog
  <2>2. ASSUME NEW p \in Handlers, Upload(p) \/ Delete(p) \/ ArmGet(p) \/ ActivateLock(p)
        PROVE  eng' = eng
    BY <2>2 DEF Upload, Delete, ArmGet, ActivateLock
  <2>3. CASE Run
    <3>1. eng \in [cur : Programs, vm : Cells, armed : Prepared \cup {None},
                   phase : {"Idle", "Validating", "Armed"}, req : BOOLEAN]
      BY <1>1 DEF SwapInv, BufferInv, EngineOK
    <3>2. eng'.req = eng.req /\ eng'.armed = eng.armed
      BY <2>3, <3>1 DEF Run
    <3>3. QED BY <1>1, <3>2
  <2>4. CASE Install
    BY <1>1, <2>4, InstallOrDefer
  <2>5. CASE Follow \/ WaitCurrent
    BY <1>1, <2>5 DEF Follow, WaitCurrent
  <2>6. ~Restore
    BY <1>1 DEF Restore, SwapInv, BootAlone, EngineInit
  <2>7. QED
    BY <1>1, <2>1, <2>2, <2>3, <2>4, <2>5, <2>6 DEF Next
<1>2. SwapInv /\ [Next]_vars => [Kept]_vars
  BY <1>1
<1>3. QED
  BY <1>2, SwapInvariant, PTL DEF Spec, PendingKept
=============================================================================
