------------------------------ MODULE HotSwap ------------------------------
(***************************************************************************)
(* Program life cycle: the package store on disk, the arm / activate /     *)
(* delete handlers of the REST API, the loader's two buffers, the epoch    *)
(* install of the scan thread, the supervisor task that follows the        *)
(* current program, and the boot that restores it.                         *)
(*                                                                         *)
(* One step is what the code does under one acquisition of the runtime     *)
(* mutex, or one file operation.  A request handler that has answered 202  *)
(* goes on as the task that waits for the swap.  The swap itself runs      *)
(* under the runtime mutex, so the phase "Swapping" is never seen between  *)
(* two steps.                                                              *)
(***************************************************************************)
EXTENDS Integers, Sequences, FiniteSets

CONSTANTS
  Packages,    \* packages an operator may upload: records of type Package
  Shipped,     \* the ones in the store at first
  Handlers,    \* slots for REST requests in progress
  Follower,    \* the supervisor's follow_current_program task
  Boot,        \* the supervisor's boot sequence
  Values,      \* values a retain cell may take; 0 is one of them
  MaxRequests, \* bound on REST requests
  MaxWrites,   \* bound on retain cells written by the running program
  MaxCrashes,  \* bound on process crashes
  None

Procs == Handlers \cup {Follower, Boot}
Ids == {k.id : k \in Packages}

ASSUME HotSwapConstants ==
  /\ 0 \in Values /\ Shipped \subseteq Packages
  /\ Follower # Boot /\ {Follower, Boot} \cap Handlers = {}
  /\ None \notin Packages /\ None \notin Ids /\ None \notin Procs
  /\ {MaxRequests, MaxWrites, MaxCrashes} \subseteq Nat

VARIABLES
  eng,     \* ScanEngine: current program, its retain cells, buffer B, phase, activate request
  info,    \* Runtime: current_info and armed_info
  pkgFile, \* <id>/package.spkg
  metaFile,\* <id>/meta.json: the package it was written for
  ptr,     \* pointer files "current" and "armed"
  armLock, \* AppState.arm_lock: its holder
  pc, loc, \* per process: position and locals
  last,    \* follow_current_program: key seen last
  catalog, \* program whose catalog telemetry was given last
  up,      \* "boot", "serving" or "down"
  was,     \* history: ids that have been the current program
  count    \* bounds: requests, writes, crashes so far

vars == <<eng, info, pkgFile, metaFile, ptr, armLock, pc, loc, last,
          catalog, up, was, count>>
disk == <<pkgFile, metaFile, ptr>>

(* Definitions named Mutant... are defective variants of the definition    *)
(* that follows them; no specification uses them.                          *)

----------------------------------------------------------------------------
(* Packages and what arming computes from them.                            *)

\* A package: id, compatibility hash, requested restart policy, retain
\* layout as a sequence of <<symbol, type>> (the offset is the index), and
\* the step of arming that refuses it ("none" when it is good).
Offsets(k) == IF k = None THEN {} ELSE 1..Len(k.retain)

\* What buffer B holds of a package once it is armed.
Prepared ==
  [pkg : Packages, copies : SUBSET (Nat \X Nat),
   image : UNION {[Offsets(k) -> Values] : k \in Packages},
   policy : {"Bumpless", "SafeReset"}]

\* RetainLayout::new refuses a layout that names a symbol twice.
ASSUME PackageAssumption ==
  /\ None \notin Prepared
  /\ \A k \in Packages : \A i, j \in Offsets(k) :
       k.retain[i][1] = k.retain[j][1] => i = j

RetainCopies(old, new) ==
  {c \in Offsets(old) \X Offsets(new) : old.retain[c[1]] = new.retain[c[2]]}

\* map_retain without force: one symbol, two types, is refused.
RetainIncompatible(old, new) ==
  \E i \in Offsets(old), j \in Offsets(new) :
    /\ old.retain[i][1] = new.retain[j][1]
    /\ old.retain[i][2] # new.retain[j][2]

MapRetain(copies, bytes, new) ==
  [j \in Offsets(new) |->
     IF \E c \in copies : c[2] = j
     THEN bytes[(CHOOSE c \in copies : c[2] = j)[1]] ELSE 0]

ResolveRestart(cur, new) ==
  IF new.bumpless /\ cur # None /\ cur.hash = new.hash
  THEN "Bumpless" ELSE "SafeReset"

\* install_shadow_retain and the rest of build_prepared, from the context
\* that begin_arm took.
BuildPrepared(k, ctx) ==
  LET copies == RetainCopies(ctx.cur, k)
  IN [pkg |-> k, copies |-> copies,
      image |-> MapRetain(copies, ctx.bytes, k),
      policy |-> ResolveRestart(ctx.cur, k)]

PrepareFails(k, ctx) == k.refused = "prepare" \/ RetainIncompatible(ctx.cur, k)

\* Same id and compatibility hash: the loader's notion of the same program.
SameProgram(a, b) == a # None /\ b # None /\ a.id = b.id /\ a.hash = b.hash

IdOf(k) == IF k = None THEN None ELSE k.id

----------------------------------------------------------------------------
EngineInit ==
  [cur |-> None, vm |-> <<>>, armed |-> None, phase |-> "Idle", req |-> FALSE]
InfoInit == [cur |-> None, armed |-> None]
LocInit == [id |-> None, pkg |-> None, meta |-> None, ctx |-> None, snap |-> None]

\* The device holds some packages, and may have run one of them before.
DiskInit ==
  /\ pkgFile = [i \in Ids |-> IF \E k \in Shipped : k.id = i
                              THEN CHOOSE k \in Shipped : k.id = i ELSE None]
  /\ metaFile = pkgFile
  /\ \E i \in {k.id : k \in Shipped} \cup {None} :
       ptr = [current |-> i, armed |-> None] /\ was = {i} \ {None}

Init ==
  /\ eng = EngineInit /\ info = InfoInit /\ DiskInit
  /\ armLock = None
  /\ pc = [p \in Procs |-> IF p = Boot THEN "restore" ELSE "idle"]
  /\ loc = [p \in Procs |-> LocInit]
  /\ last = None /\ catalog = None /\ up = "boot"
  /\ count = [requests |-> 0, writes |-> 0, crashes |-> 0]

Goto(p, at) == pc' = [pc EXCEPT ![p] = at]

\* The handler returns: its locals and the arm lock it holds are dropped.
Return(p) ==
  /\ Goto(p, "idle")
  /\ loc' = [loc EXCEPT ![p] = LocInit]
  /\ armLock' = IF armLock = p THEN None ELSE armLock

\* A request comes in and takes a free slot: slots are interchangeable.
Request(p) ==
  /\ up = "serving" /\ \E h \in Handlers : pc[h] = "idle"
  /\ p = CHOOSE h \in Handlers : pc[h] = "idle"
  /\ count.requests < MaxRequests
  /\ count' = [count EXCEPT !.requests = @ + 1]

MutantLayoutsNotPromoted(e, n) ==
  IF e.armed = None THEN [n EXCEPT !.armed = None] ELSE n

\* sync_layouts_after_step: buffer B is gone and there is a current program,
\* so B became current.
SyncLayouts(e, n) ==
  IF e.armed = None /\ e.cur # None /\ n.armed # None
  THEN [cur |-> n.armed, armed |-> None] ELSE n

----------------------------------------------------------------------------
(* Program store.                                                          *)

DirExists(i) == pkgFile[i] # None \/ metaFile[i] # None

\* POST /programs.  put renames the package into place ...
Upload(p) == \E k \in Packages :
  /\ Request(p)
  /\ pkgFile' = [pkgFile EXCEPT ![k.id] = k]
  /\ loc' = [loc EXCEPT ![p].pkg = k] /\ Goto(p, "putMeta")
  /\ UNCHANGED <<eng, info, metaFile, ptr, armLock, last, catalog, up, was>>

\* ... and then writes meta.json, which fails when the directory is gone.
PutMeta(p) ==
  LET k == loc[p].pkg IN
  /\ pc[p] = "putMeta"
  /\ metaFile' = IF DirExists(k.id) THEN [metaFile EXCEPT ![k.id] = k] ELSE metaFile
  /\ Return(p)
  /\ UNCHANGED <<eng, info, pkgFile, ptr, last, catalog, up, was, count>>

Stored(i) == metaFile[i] # None /\ pkgFile[i] # None

\* DELETE /programs/{id}: refused for the current and the armed program ...
Delete(p) == \E i \in Ids :
  /\ Request(p)
  /\ i \notin {IdOf(info.cur), IdOf(info.armed)}
  /\ loc' = [loc EXCEPT ![p].id = i] /\ Goto(p, "remove")
  /\ UNCHANGED <<eng, info, disk, armLock, last, catalog, up, was>>

\* ... and the directory is removed after the runtime mutex is released.
Remove(p) ==
  LET i == loc[p].id IN
  /\ pc[p] = "remove"
  /\ pkgFile' = [pkgFile EXCEPT ![i] = None]
  /\ metaFile' = [metaFile EXCEPT ![i] = None]
  /\ Return(p)
  /\ UNCHANGED <<eng, info, ptr, last, catalog, up, was, count>>

----------------------------------------------------------------------------
(* POST /programs/{id}/arm.                                                *)

ArmGet(p) == \E i \in Ids :
  /\ Request(p) /\ Stored(i)
  /\ loc' = [loc EXCEPT ![p] = [@ EXCEPT !.meta = metaFile[i], !.pkg = pkgFile[i]]]
  /\ Goto(p, "armLock")
  /\ UNCHANGED <<eng, info, disk, armLock, last, catalog, up, was>>

\* The arm lock, and the early return when this program is armed already.
ArmLock(p) ==
  /\ pc[p] = "armLock" /\ armLock = None
  /\ IF SameProgram(info.armed, loc[p].meta)
     THEN Return(p)
     ELSE armLock' = p /\ Goto(p, "armBegin") /\ UNCHANGED loc
  /\ UNCHANGED <<eng, info, disk, last, catalog, up, was, count>>

MutantArmWhilePending == eng.phase = "Validating"

ArmRefused == eng.req

BeginArm(p) ==
  /\ pc[p] = "armBegin"
  /\ IF ArmRefused
     THEN Return(p) /\ UNCHANGED <<eng, info>>
     ELSE /\ info' = SyncLayouts(eng, info)
          /\ eng' = [eng EXCEPT !.phase = "Validating"]
          /\ loc' = [loc EXCEPT ![p].ctx = [cur |-> info'.cur, bytes |-> eng.vm]]
          /\ Goto(p, "armPrepare") /\ UNCHANGED armLock
  /\ UNCHANGED <<disk, last, catalog, up, was, count>>

MutantAbortKeepsPhase(e) == e.phase

AbortedPhase(e) == IF e.armed = None THEN "Idle" ELSE "Armed"

\* prepare_arm or the engine's own checks refuse the package: abort_arm.
AbortArm(p) ==
  /\ pc[p] = "armPrepare"
  /\ PrepareFails(loc[p].pkg, loc[p].ctx) \/ loc[p].pkg.refused = "arm"
  /\ eng' = IF eng.phase = "Validating"
            THEN [eng EXCEPT !.phase = AbortedPhase(eng)] ELSE eng
  /\ Return(p)
  /\ UNCHANGED <<info, disk, last, catalog, up, was, count>>

EngineArm(e, prepared) ==
  [e EXCEPT !.armed = prepared, !.phase = "Armed", !.req = FALSE]

CommitArm(p) ==
  LET k == loc[p].pkg IN
  /\ pc[p] = "armPrepare"
  /\ ~PrepareFails(k, loc[p].ctx) /\ k.refused # "arm"
  /\ eng' = EngineArm(eng, BuildPrepared(k, loc[p].ctx))
  /\ info' = [info EXCEPT !.armed = k]
  /\ Goto(p, "syncRead") /\ loc' = [loc EXCEPT ![p] = LocInit]
  /\ UNCHANGED <<disk, armLock, last, catalog, up, was, count>>

----------------------------------------------------------------------------
(* POST /programs/{id}/activate.                                           *)

ActivateAllowed(i) ==
  /\ info.armed # None /\ info.armed.id = i
  /\ eng.phase # "Validating" /\ ~eng.req

ActivateLock(p) == \E i \in Ids :
  /\ Request(p) /\ armLock = None /\ ActivateAllowed(i)
  /\ armLock' = p /\ Goto(p, "activate")
  /\ UNCHANGED <<eng, info, disk, loc, last, catalog, up, was>>

\* request_activate: the program that is current already is dropped from B.
RequestActivate(e) ==
  IF SameProgram(e.cur, e.armed.pkg)
  THEN [e EXCEPT !.armed = None, !.req = FALSE, !.phase = "Idle"]
  ELSE [e EXCEPT !.req = TRUE]

Activate(p) ==
  /\ pc[p] = "activate"
  /\ eng' = RequestActivate(eng)
  /\ info' = IF eng'.armed = None THEN [info EXCEPT !.armed = None] ELSE info
  /\ Goto(p, IF eng'.req THEN "poll" ELSE "syncRead")
  /\ armLock' = None
  /\ UNCHANGED <<disk, loc, last, catalog, up, was, count>>

\* activate_settled, polled by wait_for_idle and by the spawned task.
ActivateSettled ==
  /\ eng.phase = "Idle" \/ info.cur # None
  /\ info.armed = None

Poll(p) ==
  /\ pc[p] = "poll" /\ ActivateSettled
  /\ Goto(p, "syncRead")
  /\ UNCHANGED <<eng, info, disk, armLock, loc, last, catalog, up, was, count>>

----------------------------------------------------------------------------
(* sync_program_pointers: a snapshot under the mutex, then the writes.     *)

MutantPointersSwapped(p) ==
  /\ pc[p] = "syncRead"
  /\ loc' = [loc EXCEPT ![p].snap = [current |-> IdOf(info.armed), armed |-> IdOf(info.cur)]]
  /\ Goto(p, "syncWrite")
  /\ UNCHANGED <<eng, info, disk, armLock, last, catalog, up, was, count>>

SyncRead(p) ==
  /\ pc[p] = "syncRead"
  /\ loc' = [loc EXCEPT ![p].snap = [current |-> IdOf(info.cur), armed |-> IdOf(info.armed)]]
  /\ Goto(p, "syncWrite")
  /\ UNCHANGED <<eng, info, disk, armLock, last, catalog, up, was, count>>

\* Nothing reads the pointer "armed", so its write is joined to the other's.
SyncWrite(p) ==
  /\ pc[p] = "syncWrite"
  /\ ptr' = loc[p].snap
  /\ IF p \in Handlers \/ (p = Follower /\ last = None)
     THEN Return(p)
     ELSE /\ Goto(p, "catalog") /\ loc' = [loc EXCEPT ![p] = LocInit]
          /\ UNCHANGED armLock
  /\ UNCHANGED <<eng, info, pkgFile, metaFile, last, catalog, up, was, count>>

----------------------------------------------------------------------------
(* The scan thread, under the runtime mutex.                               *)

\* The running program writes one of its retain cells.
Run == \E i \in DOMAIN eng.vm, v \in Values :
  /\ count.writes < MaxWrites /\ eng.vm[i] # v
  /\ eng' = [eng EXCEPT !.vm[i] = v]
  /\ count' = [count EXCEPT !.writes = @ + 1]
  /\ UNCHANGED <<info, disk, armLock, pc, loc, last, catalog, up, was>>

MutantBlitAtArmOnly(e) == e.armed.image

\* blit_retain_into: live cells over the image that arming built.
BlitRetain(e) ==
  [j \in DOMAIN e.armed.image |->
     IF e.cur # None /\ \E c \in e.armed.copies : c[2] = j
     THEN e.vm[(CHOOSE c \in e.armed.copies : c[2] = j)[1]] ELSE e.armed.image[j]]

BlitFails(e) == e.cur # None /\ \E c \in e.armed.copies : c[1] \notin DOMAIN e.vm

\* try_epoch_install and the sync_layouts_after_step of the same step: the
\* blit faults, or misses the deadline, or the program is committed.
Install == \E late \in BOOLEAN :
  /\ up # "down" /\ eng.req /\ eng.armed # None
  /\ eng' = IF BlitFails(eng)
            THEN [eng EXCEPT !.req = FALSE, !.phase = "Idle"]
            ELSE IF late
            THEN [eng EXCEPT !.req = FALSE, !.phase = "Armed"]
            ELSE [cur |-> eng.armed.pkg, vm |-> BlitRetain(eng),
                  armed |-> None, phase |-> "Idle", req |-> FALSE]
  /\ info' = SyncLayouts(eng', info)
  /\ was' = IF eng'.armed = None THEN was \cup {eng'.cur.id} ELSE was
  /\ UNCHANGED <<disk, armLock, pc, loc, last, catalog, up, count>>

----------------------------------------------------------------------------
(* The supervisor.                                                         *)

\* settled_current_key.
SettledKey == IF eng.phase # "Idle" \/ info.cur = None THEN None
              ELSE [id |-> info.cur.id, hash |-> info.cur.hash]

Follow ==
  /\ up # "down" /\ pc[Follower] = "idle" /\ SettledKey # last
  /\ last' = SettledKey
  /\ Goto(Follower, "syncRead")
  /\ UNCHANGED <<eng, info, disk, armLock, loc, catalog, up, was, count>>

\* The catalog of the program that is current now; boot then serves.
PushCatalog(p) ==
  /\ pc[p] = "catalog"
  /\ catalog' = info.cur
  /\ Return(p)
  /\ up' = IF p = Boot THEN "serving" ELSE up
  /\ UNCHANGED <<eng, info, disk, last, was, count>>

\* restore_current and the put and upload of install_package.  Without a
\* pointer there is nothing to restore; a package that cannot be read or
\* armed ends the process.
Restore ==
  LET i == ptr.current
      ctx == [cur |-> info.cur, bytes |-> eng.vm]
  IN
  /\ pc[Boot] = "restore"
  /\ IF i = None
     THEN /\ up' = "serving" /\ Goto(Boot, "idle")
          /\ UNCHANGED <<eng, info, metaFile>>
     ELSE IF ~Stored(i) \/ PrepareFails(pkgFile[i], ctx) \/ pkgFile[i].refused = "arm"
     THEN up' = "down" /\ Goto(Boot, "idle") /\ UNCHANGED <<eng, info, metaFile>>
     ELSE /\ metaFile' = [metaFile EXCEPT ![i] = pkgFile[i]]
          /\ eng' = RequestActivate(EngineArm(eng, BuildPrepared(pkgFile[i], ctx)))
          /\ info' = [info EXCEPT !.armed = pkgFile[i]]
          /\ Goto(Boot, "waitCurrent") /\ UNCHANGED up
  /\ UNCHANGED <<pkgFile, ptr, armLock, loc, last, catalog, was, count>>

\* wait_current: the swap settles within five seconds or boot fails.
WaitCurrent ==
  /\ pc[Boot] = "waitCurrent"
  /\ \/ /\ info.cur # None /\ eng.phase = "Idle"
        /\ Goto(Boot, "syncRead") /\ UNCHANGED up
     \/ /\ ~eng.req /\ ~(info.cur # None /\ eng.phase = "Idle")
        /\ up' = "down" /\ Goto(Boot, "idle")
  /\ UNCHANGED <<eng, info, disk, armLock, loc, last, catalog, was, count>>

\* The process dies anywhere, or has ended; the disk is what is left.
Restart ==
  /\ count.crashes < MaxCrashes
  /\ count' = [count EXCEPT !.crashes = @ + 1]
  /\ eng' = EngineInit /\ info' = InfoInit /\ armLock' = None
  /\ pc' = [p \in Procs |-> IF p = Boot THEN "restore" ELSE "idle"]
  /\ loc' = [p \in Procs |-> LocInit]
  /\ last' = None /\ catalog' = None /\ up' = "boot"
  /\ UNCHANGED <<disk, was>>

----------------------------------------------------------------------------
HandlerStep(p) ==
  \/ PutMeta(p) \/ Remove(p)
  \/ ArmLock(p) \/ BeginArm(p) \/ AbortArm(p) \/ CommitArm(p)
  \/ Activate(p) \/ Poll(p)
  \/ SyncRead(p) \/ SyncWrite(p) \/ PushCatalog(p)

Next ==
  \/ \E p \in Handlers : Upload(p) \/ Delete(p) \/ ArmGet(p) \/ ActivateLock(p)
  \/ \E p \in Procs : HandlerStep(p)
  \/ Run \/ Install \/ Follow \/ Restore \/ WaitCurrent \/ Restart

\* Tasks of the runtime and the scan thread keep running; requests, crashes
\* and the program's writes need not happen.
Spec ==
  /\ Init /\ [][Next]_vars
  /\ \A p \in Procs : WF_vars(HandlerStep(p))
  /\ WF_vars(Install) /\ WF_vars(Follow) /\ WF_vars(Restore) /\ WF_vars(WaitCurrent)

----------------------------------------------------------------------------
(* Properties.                                                             *)

\* What buffer B was prepared from is still what runs: its retain copies and
\* its restart policy are those of the current program (begin_arm takes the
\* context under the mutex and commit_arm installs it after it was released).
ArmedFitsCurrent ==
  eng.armed # None =>
    /\ eng.armed.copies = RetainCopies(eng.cur, eng.armed.pkg)
    /\ eng.armed.policy = ResolveRestart(eng.cur, eng.armed.pkg)

\* The loader's records of the two buffers agree with the engine's whenever
\* the mutex is free (sync_layouts_after_step infers a commit from a hole).
InfoMatchesEngine ==
  /\ info.cur = eng.cur
  /\ info.armed = IF eng.armed = None THEN None ELSE eng.armed.pkg

\* What Install may do: put B's program into place, or keep B and drop the
\* request when the copy took too long (InstallOutcome::Deferred).
Installs == eng'.cur = eng.armed.pkg /\ eng'.armed = None /\ ~eng'.req
Defers   == eng'.cur = eng.cur /\ eng'.armed = eng.armed /\ eng'.phase = "Armed" /\ ~eng'.req

\* A swap carries every retain symbol that both programs declare with one
\* type at the value the outgoing program left it with, however long ago the
\* incoming one was armed; and an install is done or deferred, it never
\* faults on a copy that does not fit the running program.
RetainCarried ==
  [][Install =>
       \/ Defers
       \/ /\ Installs
          /\ \A c \in RetainCopies(eng.cur, eng'.cur) : eng'.vm[c[2]] = eng.vm[c[1]]]_vars

\* An accepted activate is not lost or diverted: no arm, abort, second
\* activate or boot step withdraws the request or touches buffer B.  Only the
\* scan thread ends it, by installing what is in B or by a deferral that
\* leaves it armed for another activate; or the process dies.
PendingKept ==
  [][eng.req => \/ eng'.req /\ eng'.armed = eng.armed
                \/ Install /\ (Installs \/ Defers)
                \/ Restart]_vars

\* The pointer that boot follows names a program that has run, never one
\* that was only uploaded or armed.
PointerHasRun == ptr.current # None => ptr.current \in was

\* An arm that fails at any stage gives the phase back: validating, which
\* refuses every activate, always ends.
ValidatingEnds == (eng.phase = "Validating") ~> (eng.phase # "Validating")

\* A quiet system: no request in progress, the follower has seen the key.
Quiet ==
  /\ up = "serving" /\ \A p \in Procs : pc[p] = "idle"
  /\ eng.phase = "Idle" /\ info.cur # None /\ last = SettledKey

\* "keep pointers + catalog in sync whenever `current_info` settles after an
\* epoch swap" (supervisor.rs:371): once everything is quiet, the pointer and
\* the telemetry catalog are those of the running program.
FollowedWhenQuiet == Quiet => ptr.current = info.cur.id /\ catalog = info.cur

\* "cannot delete the current program" (routes/programs.rs:109): the package
\* of the running program stays in the store, so that a restart finds it.
CurrentStored == info.cur # None => Stored(info.cur.id)

=============================================================================
